---- MODULE Spec2Model ----
(***************************************************************************)
(* The storage manager of the generic 64-bit dev backend                   *)
(* (compiler/gen_dev/src/generic64/storage.rs): register pools, the symbol *)
(* storage map, the reference-counted allocation map and the free-list     *)
(* stack allocator.                                                        *)
(*                                                                         *)
(* Every method of StorageManager is an operator from a manager record m   *)
(* (one field per field of the struct, plus the code buffer `buf` and the  *)
(* fatal error `err`) to the manager after the call; methods that return a *)
(* value give [m |-> manager, ret |-> value].  internal_error! / todo!     *)
(* end the process: the operator stops there and sets m.err.               *)
(***************************************************************************)
EXTENDS Integers, Sequences, FiniteSets, TLC

(***************************************************************************)
(* Bounds of the model.                                                    *)
(***************************************************************************)
\* The largest local frame (bytes) a behaviour may grow to.
MaxStack == 24
\* The deepest nesting of with_tmp_*_reg callbacks.
MaxTmp == 1
\* The 8-byte slots of the frame in which the allocator's free lists are drawn.
AllocSlots == 4

(***************************************************************************)
(* Program constants.                                                      *)
(***************************************************************************)
I32_MAX == 2147483647

(***************************************************************************)
(* The collaborators: symbols, the calling convention, the layout oracle.  *)
(***************************************************************************)
RET_POINTER == "RET_POINTER"
\* The client's symbols, in the order it introduces them.
SymbolOrder == <<"s0", "s1">>
Symbols == {SymbolOrder[i] : i \in 1..Len(SymbolOrder)}
AllSymbols == Symbols \cup {RET_POINTER}

GENERAL_DEFAULT_FREE_REGS == <<"r0", "r1">>
FLOAT_DEFAULT_FREE_REGS == <<"f0", "f1">>
\* r2 and f2 are not free by default: they only come in holding an argument.
GENERAL_CALLEE_SAVED_REGS == {"r1", "r2"}
FLOAT_CALLEE_SAVED_REGS == {"f1", "f2"}

SeqToSet(s) == {s[i] : i \in 1..Len(s)}
GeneralRegs == SeqToSet(GENERAL_DEFAULT_FREE_REGS)
FloatRegs == SeqToSet(FLOAT_DEFAULT_FREE_REGS)

general_callee_saved(reg) == reg \in GENERAL_CALLEE_SAVED_REGS
float_callee_saved(reg) == reg \in FLOAT_CALLEE_SAVED_REGS
general_caller_saved(reg) == ~general_callee_saved(reg)
float_caller_saved(reg) == ~float_callee_saved(reg)

\* Offsets (positive: the caller's frame) of incoming stack arguments.
StackArgOffsets == {16}

\* Layouts.
I64 == [tag |-> "I64", fields |-> <<>>]
F64 == [tag |-> "F64", fields |-> <<>>]
I32 == [tag |-> "I32", fields |-> <<>>]
Struct(fields) == [tag |-> "Struct", fields |-> fields]

RECURSIVE layout_stack_size(_)
layout_stack_size(layout) ==
    CASE layout.tag = "I64" -> 8
      [] layout.tag = "F64" -> 8
      [] layout.tag = "I32" -> 4
      [] layout.tag = "Struct" ->
            IF layout.fields = <<>> THEN 0
            ELSE layout_stack_size(Head(layout.fields)) + layout_stack_size(Struct(Tail(layout.fields)))

is_primitive(layout) == layout.tag \in {"I64", "F64", "I32"}

(***************************************************************************)
(* Storage: the tagged union of lines 20-69.                               *)
(***************************************************************************)
General(reg) == [kind |-> "General", r |-> reg]
Float(reg) == [kind |-> "Float", r |-> reg]
None == [kind |-> "None", r |-> "none"]

Reg(reg_storage) == [tag |-> "Reg", reg |-> reg_storage, base_offset |-> 0, size |-> 0]
Primitive(base_offset, reg) ==
    [tag |-> "Primitive", reg |-> reg, base_offset |-> base_offset, size |-> 8]
ReferencedPrimitive(base_offset, size) ==
    [tag |-> "ReferencedPrimitive", reg |-> None, base_offset |-> base_offset, size |-> size]
Complex(base_offset, size) ==
    [tag |-> "Complex", reg |-> None, base_offset |-> base_offset, size |-> size]
NoData == [tag |-> "NoData", reg |-> None, base_offset |-> 0, size |-> 0]

\* An Rc<(i32, u32)>: `id` is the identity of the heap cell the Rc points to.
Rc(id, base_offset, size) == [id |-> id, base_offset |-> base_offset, size |-> size]

(***************************************************************************)
(* Maps and vectors.                                                       *)
(***************************************************************************)
EmptyMap == [x \in {} |-> 0]
Insert(f, k, v) == [x \in (DOMAIN f) \cup {k} |-> IF x = k THEN v ELSE f[x]]
Remove(f, k) == [x \in (DOMAIN f) \ {k} |-> f[x]]
Last(s) == s[Len(s)]
Front(s) == SubSeq(s, 1, Len(s) - 1)
\* Vec::remove / Vec::insert, with the 0-based index of the source.
VecRemove(s, i) == SubSeq(s, 1, i) \o SubSeq(s, i + 2, Len(s))
VecInsert(s, i, e) == SubSeq(s, 1, i) \o <<e>> \o SubSeq(s, i + 1, Len(s))
VecSet(s, i, e) == [s EXCEPT ![i + 1] = e]
VecGet(s, i) == s[i + 1]
\* Vec::retain(|r| *r != reg)
RECURSIVE Retain(_, _)
Retain(s, reg) ==
    IF s = <<>> THEN <<>>
    ELSE IF Head(s) = reg THEN Retain(Tail(s), reg)
    ELSE <<Head(s)>> \o Retain(Tail(s), reg)

(***************************************************************************)
(* The manager after new_storage_manager, and after reset.                 *)
(***************************************************************************)
new_storage_manager ==
    [ symbol_storage_map |-> EmptyMap,
      allocation_map |-> EmptyMap,
      general_free_regs |-> <<>>,
      general_used_regs |-> <<>>,
      general_used_callee_saved_regs |-> {},
      float_free_regs |-> <<>>,
      float_used_regs |-> <<>>,
      float_used_callee_saved_regs |-> {},
      free_stack_chunks |-> <<>>,
      stack_size |-> 0,
      buf |-> <<>>,
      err |-> "none" ]

reset(m) ==
    [ m EXCEPT !.symbol_storage_map = EmptyMap,
               !.allocation_map = EmptyMap,
               !.general_used_callee_saved_regs = {},
               !.general_free_regs = GENERAL_DEFAULT_FREE_REGS,
               !.general_used_regs = <<>>,
               !.float_used_callee_saved_regs = {},
               !.float_free_regs = FLOAT_DEFAULT_FREE_REGS,
               !.float_used_regs = <<>>,
               !.free_stack_chunks = <<>>,
               !.stack_size = 0 ]

\* internal_error!(msg) / todo!(): the process ends with the error `e`.
internal_error(m, e) == [m |-> [m EXCEPT !.err = e], ret |-> 0]
Ok(m, ret) == [m |-> m, ret |-> ret]
\* An instruction appended to the code buffer by the assembler.
Emit(m, op, dst, src) == [m EXCEPT !.buf = Append(@, <<op, dst, src>>)]

(***************************************************************************)
(* The free-list stack allocator.                                          *)
(***************************************************************************)
\* The integers of the model checker are 32 bits wide.  A u32 is held as
\* the i32 of the same 32 bits (`x as i32`): the values below 2^31 as
\* themselves, the value 2^32 - k (k up to 2^31) as -k.
U32Lt(a, b) == IF (a < 0) = (b < 0) THEN a < b ELSE b < 0
U32Ge(a, b) == ~U32Lt(a, b)
\* u32::checked_add: Some(sum), or no value when the sum does not fit 32 bits.
Some(value) == [is_some |-> TRUE, value |-> value]
NoValue == [is_some |-> FALSE, value |-> 0]
checked_add(a, b) ==
    IF a >= 0 /\ b >= 0
    THEN IF a > I32_MAX - b THEN Some((a - I32_MAX - 1) + (b - I32_MAX - 1)) ELSE Some(a + b)
    ELSE IF a < 0 /\ b < 0 THEN NoValue
    ELSE IF a + b >= 0 THEN NoValue ELSE Some(a + b)
\* The sum modulo 2^32, which a build without overflow checks computes.
wrapping_add(a, b) ==
    IF a >= 0 /\ b >= 0 /\ a > I32_MAX - b THEN (a - I32_MAX - 1) + (b - I32_MAX - 1)
    ELSE IF a < 0 /\ b < 0 /\ a < (-I32_MAX - 1) - b
    THEN (a + I32_MAX + 1) + (b + I32_MAX + 1)
    ELSE a + b
\* The difference modulo 2^32.
wrapping_sub(a, b) ==
    IF a < 0 /\ b >= 0 /\ a < (-I32_MAX - 1) + b THEN (((a + I32_MAX) + 1) - b) + I32_MAX + 1
    ELSE IF a >= 0 /\ b < 0 /\ a > I32_MAX + b THEN (a - I32_MAX - 1) - ((b + I32_MAX) + 1)
    ELSE a - b
\* The sum of two i32 does not fit an i32: a build with overflow checks
\* panics there, a build without them goes on with the wrapped sum.
I32AddOverflows(a, b) ==
    \/ a >= 0 /\ b >= 0 /\ a > I32_MAX - b
    \/ a < 0 /\ b < 0 /\ a < (-I32_MAX - 1) - b

\* Lines 730-734: round the amount up to a multiple of 8.
RoundUp8(amount) ==
    IF amount % 8 # 0 THEN wrapping_add(amount, 8) - (amount % 8) ELSE amount
\* amount + 8 (line 731) does not fit u32: a build with overflow checks
\* panics there, a build without them goes on with the wrapped sum.
RoundingOverflows(amount) == amount % 8 # 0 /\ ~checked_add(amount, 8).is_some

\* Lines 735-740: the position (1-based, 0 when none) of the smallest free
\* chunk of at least `amount` bytes; min_by_key keeps the first of equals.
FittingChunk(chunks, amount) ==
    LET fit == {i \in 1..Len(chunks) : U32Ge(chunks[i][2], amount)}
    IN IF fit = {} THEN 0
       ELSE CHOOSE i \in fit :
                \A j \in fit : \/ U32Lt(chunks[i][2], chunks[j][2])
                               \/ chunks[i][2] = chunks[j][2] /\ i <= j

\* claim_stack_size leaving a chunk it hands out whole in the free list.
claim_stack_size_KeepsChunk(m, requested) ==
    LET amount == RoundUp8(requested)
        pos == FittingChunk(m.free_stack_chunks, amount)
    IN IF requested = 0 /\ m.debug_assertions
       THEN internal_error(m, "DebugAssert")
       ELSE IF RoundingOverflows(requested) /\ m.overflow_checks
       THEN internal_error(m, "ArithmeticOverflow")
       ELSE IF pos # 0
       THEN LET offset == m.free_stack_chunks[pos][1]
                size == m.free_stack_chunks[pos][2]
            IN IF size = amount
               THEN Ok(m, offset)
               ELSE IF I32AddOverflows(offset, amount) /\ m.overflow_checks
               THEN internal_error(m, "ArithmeticOverflow")
               ELSE Ok([m EXCEPT !.free_stack_chunks =
                                    VecSet(@, pos - 1, <<wrapping_add(offset, amount),
                                                         wrapping_sub(size, amount)>>)],
                       offset)
       ELSE IF ~checked_add(m.stack_size, amount).is_some
            THEN internal_error(m, "OutOfStack")
            ELSE IF U32Lt(I32_MAX, checked_add(m.stack_size, amount).value)
            THEN internal_error(m, "OutOfStack")
            ELSE Ok([m EXCEPT !.stack_size = checked_add(@, amount).value],
                    -checked_add(m.stack_size, amount).value)

\* claim_stack_size handing out the space below the frame without growing the frame.
claim_stack_size_NoGrowth(m, requested) ==
    LET amount == RoundUp8(requested)
        pos == FittingChunk(m.free_stack_chunks, amount)
    IN IF requested = 0 /\ m.debug_assertions
       THEN internal_error(m, "DebugAssert")
       ELSE IF RoundingOverflows(requested) /\ m.overflow_checks
       THEN internal_error(m, "ArithmeticOverflow")
       ELSE IF pos # 0
       THEN LET offset == m.free_stack_chunks[pos][1]
                size == m.free_stack_chunks[pos][2]
            IN IF size = amount
               THEN Ok([m EXCEPT !.free_stack_chunks = VecRemove(@, pos - 1)], offset)
               ELSE IF I32AddOverflows(offset, amount) /\ m.overflow_checks
               THEN internal_error(m, "ArithmeticOverflow")
               ELSE Ok([m EXCEPT !.free_stack_chunks =
                                    VecSet(@, pos - 1, <<wrapping_add(offset, amount),
                                                         wrapping_sub(size, amount)>>)],
                       offset)
       ELSE IF ~checked_add(m.stack_size, amount).is_some
            THEN internal_error(m, "OutOfStack")
            ELSE IF U32Lt(I32_MAX, checked_add(m.stack_size, amount).value)
            THEN internal_error(m, "OutOfStack")
            ELSE Ok(m, -checked_add(m.stack_size, amount).value)

\* Lines 727-763.
claim_stack_size(m, requested) ==
    LET amount == RoundUp8(requested)
        pos == FittingChunk(m.free_stack_chunks, amount)
    IN IF requested = 0 /\ m.debug_assertions
       THEN internal_error(m, "DebugAssert")
       ELSE IF RoundingOverflows(requested) /\ m.overflow_checks
       THEN internal_error(m, "ArithmeticOverflow")
       ELSE IF pos # 0
       THEN LET offset == m.free_stack_chunks[pos][1]
                size == m.free_stack_chunks[pos][2]
            IN IF size = amount
               THEN Ok([m EXCEPT !.free_stack_chunks = VecRemove(@, pos - 1)], offset)
               ELSE IF I32AddOverflows(offset, amount) /\ m.overflow_checks
               THEN internal_error(m, "ArithmeticOverflow")
               ELSE Ok([m EXCEPT !.free_stack_chunks =
                                    VecSet(@, pos - 1, <<wrapping_add(offset, amount),
                                                         wrapping_sub(size, amount)>>)],
                       offset)
       ELSE IF ~checked_add(m.stack_size, amount).is_some
            THEN internal_error(m, "OutOfStack")
            ELSE IF U32Lt(I32_MAX, checked_add(m.stack_size, amount).value)
            THEN internal_error(m, "OutOfStack")
            ELSE Ok([m EXCEPT !.stack_size = checked_add(@, amount).value],
                    -checked_add(m.stack_size, amount).value)

\* The order of (i32, u32) tuples.
TupleLess(a, b) == a[1] < b[1] \/ (a[1] = b[1] /\ U32Lt(a[2], b[2]))

\* slice::binary_search as the standard library computes it: the window of
\* `size` elements from `base` is halved, with no early exit at an equal
\* element, until one element is left, which is then compared.  On a sorted
\* list without duplicates this is the index of x or of the place to insert
\* it; on any other list it is the position this search arrives at.
RECURSIVE BinarySearchFrom(_, _, _, _)
BinarySearchFrom(list, x, base, size) ==
    IF size = 0 THEN base
    ELSE IF size > 1
    THEN BinarySearchFrom(list, x,
                          IF TupleLess(x, VecGet(list, base + (size \div 2)))
                          THEN base ELSE base + (size \div 2),
                          size - (size \div 2))
    ELSE IF VecGet(list, base) = x THEN base
    ELSE IF TupleLess(VecGet(list, base), x) THEN base + 1
    ELSE base
binary_search(list, x) == BinarySearchFrom(list, x, 0, Len(list))

\* free_stack_chunk inserting the chunk without merging it with its neighbours.
free_stack_chunk_NoMerge(m, base_offset, size) ==
    LET chunks == m.free_stack_chunks
        loc == <<base_offset, size>>
        pos == binary_search(chunks, loc)
        has_prev == pos > 0
        prev == VecGet(chunks, pos - 1)
        prev_end == wrapping_add(prev[1], prev[2])
        has_next == pos < Len(chunks)
        next == VecGet(chunks, pos)
        current_end == wrapping_add(base_offset, size)
        Panics(overflows) == overflows /\ m.overflow_checks
        Merged(overflows, new_chunks) ==
            IF Panics(overflows) THEN [m EXCEPT !.err = "ArithmeticOverflow"]
            ELSE [m EXCEPT !.free_stack_chunks = new_chunks]
    IN IF has_prev /\ Panics(I32AddOverflows(prev[1], prev[2]))
       THEN [m EXCEPT !.err = "ArithmeticOverflow"]
       ELSE IF has_prev /\ prev_end > base_offset
       THEN [m EXCEPT !.err = "DoubleFree"]
       ELSE IF has_next /\ Panics(I32AddOverflows(base_offset, size))
       THEN [m EXCEPT !.err = "ArithmeticOverflow"]
       ELSE IF has_next /\ current_end > next[1]
       THEN [m EXCEPT !.err = "DoubleFree"]
       ELSE [m EXCEPT !.free_stack_chunks = VecInsert(chunks, pos, loc)]

\* free_stack_chunk merging the range into the chunk after it without moving
\* the chunk's offset.
free_stack_chunk_KeepsNextOffset(m, base_offset, size) ==
    LET chunks == m.free_stack_chunks
        loc == <<base_offset, size>>
        pos == binary_search(chunks, loc)
        has_prev == pos > 0
        prev == VecGet(chunks, pos - 1)
        prev_end == wrapping_add(prev[1], prev[2])
        has_next == pos < Len(chunks)
        next == VecGet(chunks, pos)
        current_end == wrapping_add(base_offset, size)
        Panics(overflows) == overflows /\ m.overflow_checks
        Merged(overflows, new_chunks) ==
            IF Panics(overflows) THEN [m EXCEPT !.err = "ArithmeticOverflow"]
            ELSE [m EXCEPT !.free_stack_chunks = new_chunks]
    IN IF has_prev /\ Panics(I32AddOverflows(prev[1], prev[2]))
       THEN [m EXCEPT !.err = "ArithmeticOverflow"]
       ELSE IF has_prev /\ prev_end > base_offset
       THEN [m EXCEPT !.err = "DoubleFree"]
       ELSE IF has_next /\ Panics(I32AddOverflows(base_offset, size))
       THEN [m EXCEPT !.err = "ArithmeticOverflow"]
       ELSE IF has_next /\ current_end > next[1]
       THEN [m EXCEPT !.err = "DoubleFree"]
       ELSE LET merge_with_prev == has_prev /\ prev_end = base_offset
                merge_with_next == has_next /\ current_end = next[1]
            IN IF merge_with_prev /\ merge_with_next
               THEN Merged(\/ ~checked_add(prev[2], size).is_some
                           \/ ~checked_add(wrapping_add(prev[2], size), next[2]).is_some,
                           VecRemove(VecSet(chunks, pos - 1,
                                            <<prev[1], wrapping_add(wrapping_add(prev[2], size),
                                                                    next[2])>>),
                                     pos))
               ELSE IF merge_with_prev
               THEN Merged(~checked_add(prev[2], size).is_some,
                           VecSet(chunks, pos - 1, <<prev[1], wrapping_add(prev[2], size)>>))
               ELSE IF merge_with_next
               THEN Merged(~checked_add(next[2], size).is_some,
                           VecSet(chunks, pos, <<next[1], wrapping_add(next[2], size)>>))
               ELSE [m EXCEPT !.free_stack_chunks = VecInsert(chunks, pos, loc)]

\* free_stack_chunk comparing the range with the chunk before it only.
free_stack_chunk_ChecksPrevOnly(m, base_offset, size) ==
    LET chunks == m.free_stack_chunks
        loc == <<base_offset, size>>
        pos == binary_search(chunks, loc)
        has_prev == pos > 0
        prev == VecGet(chunks, pos - 1)
        prev_end == wrapping_add(prev[1], prev[2])
        has_next == pos < Len(chunks)
        next == VecGet(chunks, pos)
        current_end == wrapping_add(base_offset, size)
        Panics(overflows) == overflows /\ m.overflow_checks
        Merged(overflows, new_chunks) ==
            IF Panics(overflows) THEN [m EXCEPT !.err = "ArithmeticOverflow"]
            ELSE [m EXCEPT !.free_stack_chunks = new_chunks]
    IN IF has_prev /\ Panics(I32AddOverflows(prev[1], prev[2]))
       THEN [m EXCEPT !.err = "ArithmeticOverflow"]
       ELSE IF has_prev /\ prev_end > base_offset
       THEN [m EXCEPT !.err = "DoubleFree"]
       ELSE LET merge_with_prev == has_prev /\ prev_end = base_offset
                merge_with_next == has_next /\ current_end = next[1]
            IN IF merge_with_prev /\ merge_with_next
               THEN Merged(\/ ~checked_add(prev[2], size).is_some
                           \/ ~checked_add(wrapping_add(prev[2], size), next[2]).is_some,
                           VecRemove(VecSet(chunks, pos - 1,
                                            <<prev[1], wrapping_add(wrapping_add(prev[2], size),
                                                                    next[2])>>),
                                     pos))
               ELSE IF merge_with_prev
               THEN Merged(~checked_add(prev[2], size).is_some,
                           VecSet(chunks, pos - 1, <<prev[1], wrapping_add(prev[2], size)>>))
               ELSE IF merge_with_next
               THEN Merged(~checked_add(next[2], size).is_some,
                           VecSet(chunks, pos, <<base_offset, wrapping_add(next[2], size)>>))
               ELSE [m EXCEPT !.free_stack_chunks = VecInsert(chunks, pos, loc)]

\* Lines 806-856.
free_stack_chunk(m, base_offset, size) ==
    LET chunks == m.free_stack_chunks
        loc == <<base_offset, size>>
        pos == binary_search(chunks, loc)
        has_prev == pos > 0
        prev == VecGet(chunks, pos - 1)
        prev_end == wrapping_add(prev[1], prev[2])
        has_next == pos < Len(chunks)
        next == VecGet(chunks, pos)
        current_end == wrapping_add(base_offset, size)
        Panics(overflows) == overflows /\ m.overflow_checks
        Merged(overflows, new_chunks) ==
            IF Panics(overflows) THEN [m EXCEPT !.err = "ArithmeticOverflow"]
            ELSE [m EXCEPT !.free_stack_chunks = new_chunks]
    IN IF has_prev /\ Panics(I32AddOverflows(prev[1], prev[2]))
       THEN [m EXCEPT !.err = "ArithmeticOverflow"]
       ELSE IF has_prev /\ prev_end > base_offset
       THEN [m EXCEPT !.err = "DoubleFree"]
       ELSE IF has_next /\ Panics(I32AddOverflows(base_offset, size))
       THEN [m EXCEPT !.err = "ArithmeticOverflow"]
       ELSE IF has_next /\ current_end > next[1]
       THEN [m EXCEPT !.err = "DoubleFree"]
       ELSE LET merge_with_prev == has_prev /\ prev_end = base_offset
                merge_with_next == has_next /\ current_end = next[1]
            IN IF merge_with_prev /\ merge_with_next
               THEN Merged(\/ ~checked_add(prev[2], size).is_some
                           \/ ~checked_add(wrapping_add(prev[2], size), next[2]).is_some,
                           VecRemove(VecSet(chunks, pos - 1,
                                            <<prev[1], wrapping_add(wrapping_add(prev[2], size),
                                                                    next[2])>>),
                                     pos))
               ELSE IF merge_with_prev
               THEN Merged(~checked_add(prev[2], size).is_some,
                           VecSet(chunks, pos - 1, <<prev[1], wrapping_add(prev[2], size)>>))
               ELSE IF merge_with_next
               THEN Merged(~checked_add(next[2], size).is_some,
                           VecSet(chunks, pos, <<base_offset, wrapping_add(next[2], size)>>))
               ELSE [m EXCEPT !.free_stack_chunks = VecInsert(chunks, pos, loc)]

\* Lines 795-804.  Rc::strong_count of the removed handle is 1 when no other
\* entry of the allocation map holds a handle to the same cell.
StrongCount(allocation_map, id) ==
    Cardinality({s \in DOMAIN allocation_map : allocation_map[s].id = id})

\* free_reference releasing the chunk whatever the reference count.
free_reference_IgnoresCount(m, sym) ==
    IF sym \notin DOMAIN m.allocation_map
    THEN [m EXCEPT !.err = "UnknownSymbol"]
    ELSE LET owned_data == m.allocation_map[sym]
             m1 == [m EXCEPT !.allocation_map = Remove(@, sym)]
         IN free_stack_chunk(m1, owned_data.base_offset, owned_data.size)

\* free_reference dropping the handle without releasing the chunk of the last one.
free_reference_KeepsChunk(m, sym) ==
    IF sym \notin DOMAIN m.allocation_map
    THEN [m EXCEPT !.err = "UnknownSymbol"]
    ELSE [m EXCEPT !.allocation_map = Remove(@, sym)]

free_reference(m, sym) ==
    IF sym \notin DOMAIN m.allocation_map
    THEN [m EXCEPT !.err = "UnknownSymbol"]
    ELSE LET owned_data == m.allocation_map[sym]
             m1 == [m EXCEPT !.allocation_map = Remove(@, sym)]
         IN IF StrongCount(m1.allocation_map, owned_data.id) + 1 = 1
            THEN free_stack_chunk(m1, owned_data.base_offset, owned_data.size)
            ELSE m1

(***************************************************************************)
(* Register pools and spilling.                                            *)
(***************************************************************************)
\* free_to_stack claiming the slot of a register-held symbol without storing
\* the register to it.
free_to_stack_NoStore(m, sym, wanted_reg) ==
    IF sym \notin DOMAIN m.symbol_storage_map
    THEN [m EXCEPT !.err = "UnknownSymbol"]
    ELSE LET storage == m.symbol_storage_map[sym]
             m0 == [m EXCEPT !.symbol_storage_map = Remove(@, sym)]
             Spilled(c) ==
                 IF c.m.err # "none" THEN c.m
                 ELSE [c.m EXCEPT !.symbol_storage_map =
                                     Insert(@, sym, Primitive(c.ret, None))]
         IN IF storage.tag = "Reg"
            THEN Spilled(claim_stack_size(m0, 8))
            ELSE IF storage.tag = "Primitive" /\ storage.reg # None
            THEN [m0 EXCEPT !.symbol_storage_map =
                               Insert(@, sym, Primitive(storage.base_offset, None))]
            ELSE [m0 EXCEPT !.err = "NoRegToFree"]

\* free_to_stack leaving the register named in the storage of the spilled symbol.
free_to_stack_KeepsMirror(m, sym, wanted_reg) ==
    IF sym \notin DOMAIN m.symbol_storage_map
    THEN [m EXCEPT !.err = "UnknownSymbol"]
    ELSE LET storage == m.symbol_storage_map[sym]
             m0 == [m EXCEPT !.symbol_storage_map = Remove(@, sym)]
         IN IF storage.tag = "Reg"
            THEN IF storage.reg # wanted_reg /\ m.debug_assertions
                 THEN [m0 EXCEPT !.err = "DebugAssert"]
                 ELSE LET Spilled(c) ==
                              IF c.m.err # "none" THEN c.m
                              ELSE [Emit(c.m,
                                         IF storage.reg.kind = "General"
                                         THEN "mov_base32_reg64" ELSE "mov_base32_freg64",
                                         c.ret, storage.reg.r)
                                      EXCEPT !.symbol_storage_map =
                                                Insert(@, sym, Primitive(c.ret, storage.reg))]
                      IN Spilled(claim_stack_size(m0, 8))
            ELSE IF storage.tag = "Primitive" /\ storage.reg # None
            THEN IF storage.reg # wanted_reg /\ m.debug_assertions
                 THEN [m0 EXCEPT !.err = "DebugAssert"]
                 ELSE [m0 EXCEPT !.symbol_storage_map =
                                    Insert(@, sym, Primitive(storage.base_offset, storage.reg))]
            ELSE [m0 EXCEPT !.err = "NoRegToFree"]

\* Lines 615-655.  `sym` has just been taken out of its used list.
free_to_stack(m, sym, wanted_reg) ==
    IF sym \notin DOMAIN m.symbol_storage_map
    THEN [m EXCEPT !.err = "UnknownSymbol"]
    ELSE LET storage == m.symbol_storage_map[sym]
             m0 == [m EXCEPT !.symbol_storage_map = Remove(@, sym)]
         IN IF storage.tag = "Reg"
            THEN IF storage.reg # wanted_reg /\ m.debug_assertions
                 THEN [m0 EXCEPT !.err = "DebugAssert"]
                 ELSE LET Spilled(c) ==
                              IF c.m.err # "none" THEN c.m
                              ELSE [Emit(c.m,
                                         IF storage.reg.kind = "General"
                                         THEN "mov_base32_reg64" ELSE "mov_base32_freg64",
                                         c.ret, storage.reg.r)
                                      EXCEPT !.symbol_storage_map =
                                                Insert(@, sym, Primitive(c.ret, None))]
                      IN Spilled(claim_stack_size(m0, 8))
            ELSE IF storage.tag = "Primitive" /\ storage.reg # None
            THEN IF storage.reg # wanted_reg /\ m.debug_assertions
                 THEN [m0 EXCEPT !.err = "DebugAssert"]
                 ELSE [m0 EXCEPT !.symbol_storage_map =
                                    Insert(@, sym, Primitive(storage.base_offset, None))]
            ELSE [m0 EXCEPT !.err = "NoRegToFree"]

\* get_general_reg taking the oldest used register without spilling its symbol.
get_general_reg_NoSpill(m) ==
    IF m.general_free_regs # <<>>
    THEN LET reg == Last(m.general_free_regs)
         IN Ok([m EXCEPT !.general_free_regs = Front(@),
                         !.general_used_callee_saved_regs =
                             IF general_callee_saved(reg) THEN @ \cup {reg} ELSE @],
               reg)
    ELSE IF m.general_used_regs # <<>>
    THEN Ok([m EXCEPT !.general_used_regs = VecRemove(@, 0)], m.general_used_regs[1][1])
    ELSE internal_error(m, "OutOfRegisters")

\* Lines 180-193.
get_general_reg(m) ==
    IF m.general_free_regs # <<>>
    THEN LET reg == Last(m.general_free_regs)
         IN Ok([m EXCEPT !.general_free_regs = Front(@),
                         !.general_used_callee_saved_regs =
                             IF general_callee_saved(reg) THEN @ \cup {reg} ELSE @],
               reg)
    ELSE IF m.general_used_regs # <<>>
    THEN LET reg == m.general_used_regs[1][1]
             sym == m.general_used_regs[1][2]
             m1 == [m EXCEPT !.general_used_regs = VecRemove(@, 0)]
         IN Ok(free_to_stack(m1, sym, General(reg)), reg)
    ELSE internal_error(m, "OutOfRegisters")

\* get_float_reg spilling the newest used entry.
get_float_reg_SpillsNewest(m) ==
    IF m.float_free_regs # <<>>
    THEN LET reg == Last(m.float_free_regs)
         IN Ok([m EXCEPT !.float_free_regs = Front(@),
                         !.float_used_callee_saved_regs =
                             IF float_callee_saved(reg) THEN @ \cup {reg} ELSE @],
               reg)
    ELSE IF m.float_used_regs # <<>>
    THEN LET reg == Last(m.float_used_regs)[1]
             sym == Last(m.float_used_regs)[2]
             m1 == [m EXCEPT !.float_used_regs = Front(@)]
         IN Ok(free_to_stack(m1, sym, Float(reg)), reg)
    ELSE internal_error(m, "OutOfRegisters")

\* Lines 197-210.
get_float_reg(m) ==
    IF m.float_free_regs # <<>>
    THEN LET reg == Last(m.float_free_regs)
         IN Ok([m EXCEPT !.float_free_regs = Front(@),
                         !.float_used_callee_saved_regs =
                             IF float_callee_saved(reg) THEN @ \cup {reg} ELSE @],
               reg)
    ELSE IF m.float_used_regs # <<>>
    THEN LET reg == m.float_used_regs[1][1]
             sym == m.float_used_regs[1][2]
             m1 == [m EXCEPT !.float_used_regs = VecRemove(@, 0)]
         IN Ok(free_to_stack(m1, sym, Float(reg)), reg)
    ELSE internal_error(m, "OutOfRegisters")

\* Lines 214-220.
claim_general_reg(m, sym) ==
    LET Claimed(g) ==
            IF g.m.err # "none" THEN g
            ELSE Ok([g.m EXCEPT !.general_used_regs = Append(@, <<g.ret, sym>>),
                                !.symbol_storage_map = Insert(@, sym, Reg(General(g.ret)))],
                    g.ret)
    IN IF sym \in DOMAIN m.symbol_storage_map /\ m.debug_assertions
       THEN internal_error(m, "DebugAssert")
       ELSE Claimed(get_general_reg(m))

\* Lines 224-230.
claim_float_reg(m, sym) ==
    LET Claimed(g) ==
            IF g.m.err # "none" THEN g
            ELSE Ok([g.m EXCEPT !.float_used_regs = Append(@, <<g.ret, sym>>),
                                !.symbol_storage_map = Insert(@, sym, Reg(Float(g.ret)))],
                    g.ret)
    IN IF sym \in DOMAIN m.symbol_storage_map /\ m.debug_assertions
       THEN internal_error(m, "DebugAssert")
       ELSE Claimed(get_float_reg(m))

(***************************************************************************)
(* Loads.                                                                  *)
(***************************************************************************)
\* load_to_general_reg binding a symbol loaded from its slot as Reg, so that
\* the slot is forgotten.
load_to_general_reg_ForgetsSlot(m, sym) ==
    IF sym \notin DOMAIN m.symbol_storage_map
    THEN internal_error(m, "UnknownSymbol")
    ELSE
    LET storage == m.symbol_storage_map[sym]
        m0 == [m EXCEPT !.symbol_storage_map = Remove(@, sym)]
        \* The value is moved into the register got and the symbol bound to it.
        Loaded(g, bound) ==
            [Emit(g.m, "mov_reg64_base32", g.ret, storage.base_offset) EXCEPT
                !.general_used_regs = Append(@, <<g.ret, sym>>),
                !.symbol_storage_map = Insert(@, sym, bound)]
        FromSlot(g) ==
            IF g.m.err # "none" THEN g
            ELSE Ok(Loaded(g, Reg(General(g.ret))), g.ret)
        FromReference(g) ==
            IF g.m.err # "none" THEN g
            ELSE Ok(free_reference(Loaded(g, Reg(General(g.ret))), sym), g.ret)
    IN CASE storage.tag \in {"Reg", "Primitive"} /\ storage.reg.kind = "General" ->
              Ok([m0 EXCEPT !.symbol_storage_map = Insert(@, sym, storage)],
                 storage.reg.r)
         [] storage.tag \in {"Reg", "Primitive"} /\ storage.reg.kind = "Float" ->
              internal_error(m0, "WrongKind")
         [] storage.tag = "Primitive" /\ storage.reg = None ->
              IF storage.base_offset % 8 # 0 /\ m.debug_assertions THEN internal_error(m0, "DebugAssert")
              ELSE FromSlot(get_general_reg(m0))
         [] storage.tag = "ReferencedPrimitive"
                /\ storage.base_offset % 8 = 0 /\ storage.size = 8 ->
              FromReference(get_general_reg(m0))
         [] storage.tag = "ReferencedPrimitive"
                /\ ~(storage.base_offset % 8 = 0 /\ storage.size = 8) ->
              internal_error(m0, "Todo")
         [] storage.tag \in {"Complex", "NoData"} ->
              internal_error(m0, "UnsupportedStorage")

\* Lines 260-316.
load_to_general_reg(m, sym) ==
    IF sym \notin DOMAIN m.symbol_storage_map
    THEN internal_error(m, "UnknownSymbol")
    ELSE
    LET storage == m.symbol_storage_map[sym]
        m0 == [m EXCEPT !.symbol_storage_map = Remove(@, sym)]
        \* The value is moved into the register got and the symbol bound to it.
        Loaded(g, bound) ==
            [Emit(g.m, "mov_reg64_base32", g.ret, storage.base_offset) EXCEPT
                !.general_used_regs = Append(@, <<g.ret, sym>>),
                !.symbol_storage_map = Insert(@, sym, bound)]
        FromSlot(g) ==
            IF g.m.err # "none" THEN g
            ELSE Ok(Loaded(g, Primitive(storage.base_offset, General(g.ret))), g.ret)
        FromReference(g) ==
            IF g.m.err # "none" THEN g
            ELSE Ok(free_reference(Loaded(g, Reg(General(g.ret))), sym), g.ret)
    IN CASE storage.tag \in {"Reg", "Primitive"} /\ storage.reg.kind = "General" ->
              Ok([m0 EXCEPT !.symbol_storage_map = Insert(@, sym, storage)],
                 storage.reg.r)
         [] storage.tag \in {"Reg", "Primitive"} /\ storage.reg.kind = "Float" ->
              internal_error(m0, "WrongKind")
         [] storage.tag = "Primitive" /\ storage.reg = None ->
              IF storage.base_offset % 8 # 0 /\ m.debug_assertions THEN internal_error(m0, "DebugAssert")
              ELSE FromSlot(get_general_reg(m0))
         [] storage.tag = "ReferencedPrimitive"
                /\ storage.base_offset % 8 = 0 /\ storage.size = 8 ->
              FromReference(get_general_reg(m0))
         [] storage.tag = "ReferencedPrimitive"
                /\ ~(storage.base_offset % 8 = 0 /\ storage.size = 8) ->
              internal_error(m0, "Todo")
         [] storage.tag \in {"Complex", "NoData"} ->
              internal_error(m0, "UnsupportedStorage")

\* load_to_float_reg not putting back the storage of a symbol that is already
\* in a float register.
load_to_float_reg_DropsStorage(m, sym) ==
    IF sym \notin DOMAIN m.symbol_storage_map
    THEN internal_error(m, "UnknownSymbol")
    ELSE
    LET storage == m.symbol_storage_map[sym]
        m0 == [m EXCEPT !.symbol_storage_map = Remove(@, sym)]
        \* The value is moved into the register got and the symbol bound to it.
        Loaded(g, bound) ==
            [Emit(g.m, "mov_freg64_base32", g.ret, storage.base_offset) EXCEPT
                !.float_used_regs = Append(@, <<g.ret, sym>>),
                !.symbol_storage_map = Insert(@, sym, bound)]
        FromSlot(g) ==
            IF g.m.err # "none" THEN g
            ELSE Ok(Loaded(g, Primitive(storage.base_offset, Float(g.ret))), g.ret)
        FromReference(g) ==
            IF g.m.err # "none" THEN g
            ELSE Ok(free_reference(Loaded(g, Reg(Float(g.ret))), sym), g.ret)
    IN CASE storage.tag \in {"Reg", "Primitive"} /\ storage.reg.kind = "Float" ->
              Ok(m0, storage.reg.r)
         [] storage.tag \in {"Reg", "Primitive"} /\ storage.reg.kind = "General" ->
              internal_error(m0, "WrongKind")
         [] storage.tag = "Primitive" /\ storage.reg = None ->
              IF storage.base_offset % 8 # 0 /\ m.debug_assertions THEN internal_error(m0, "DebugAssert")
              ELSE FromSlot(get_float_reg(m0))
         [] storage.tag = "ReferencedPrimitive"
                /\ storage.base_offset % 8 = 0 /\ storage.size = 8 ->
              FromReference(get_float_reg(m0))
         [] storage.tag = "ReferencedPrimitive"
                /\ ~(storage.base_offset % 8 = 0 /\ storage.size = 8) ->
              internal_error(m0, "Todo")
         [] storage.tag \in {"Complex", "NoData"} ->
              internal_error(m0, "UnsupportedStorage")

\* Lines 322-378.
load_to_float_reg(m, sym) ==
    IF sym \notin DOMAIN m.symbol_storage_map
    THEN internal_error(m, "UnknownSymbol")
    ELSE
    LET storage == m.symbol_storage_map[sym]
        m0 == [m EXCEPT !.symbol_storage_map = Remove(@, sym)]
        \* The value is moved into the register got and the symbol bound to it.
        Loaded(g, bound) ==
            [Emit(g.m, "mov_freg64_base32", g.ret, storage.base_offset) EXCEPT
                !.float_used_regs = Append(@, <<g.ret, sym>>),
                !.symbol_storage_map = Insert(@, sym, bound)]
        FromSlot(g) ==
            IF g.m.err # "none" THEN g
            ELSE Ok(Loaded(g, Primitive(storage.base_offset, Float(g.ret))), g.ret)
        FromReference(g) ==
            IF g.m.err # "none" THEN g
            ELSE Ok(free_reference(Loaded(g, Reg(Float(g.ret))), sym), g.ret)
    IN CASE storage.tag \in {"Reg", "Primitive"} /\ storage.reg.kind = "Float" ->
              Ok([m0 EXCEPT !.symbol_storage_map = Insert(@, sym, storage)],
                 storage.reg.r)
         [] storage.tag \in {"Reg", "Primitive"} /\ storage.reg.kind = "General" ->
              internal_error(m0, "WrongKind")
         [] storage.tag = "Primitive" /\ storage.reg = None ->
              IF storage.base_offset % 8 # 0 /\ m.debug_assertions THEN internal_error(m0, "DebugAssert")
              ELSE FromSlot(get_float_reg(m0))
         [] storage.tag = "ReferencedPrimitive"
                /\ storage.base_offset % 8 = 0 /\ storage.size = 8 ->
              FromReference(get_float_reg(m0))
         [] storage.tag = "ReferencedPrimitive"
                /\ ~(storage.base_offset % 8 = 0 /\ storage.size = 8) ->
              internal_error(m0, "Todo")
         [] storage.tag \in {"Complex", "NoData"} ->
              internal_error(m0, "UnsupportedStorage")

\* load_to_specified_general_reg recording the symbol as held in the register.
load_to_specified_general_reg_Tracks(m, sym, reg) ==
    IF sym \notin DOMAIN m.symbol_storage_map
    THEN [m EXCEPT !.err = "UnknownSymbol"]
    ELSE Emit([m EXCEPT !.symbol_storage_map = Insert(@, sym, Reg(General(reg)))],
              "mov_reg64_base32", reg, m.symbol_storage_map[sym].base_offset)

\* Lines 385-432.  The method borrows the manager immutably: it can only
\* append to the code buffer or end the process.
load_to_specified_general_reg(m, sym, reg) ==
    IF sym \notin DOMAIN m.symbol_storage_map
    THEN [m EXCEPT !.err = "UnknownSymbol"]
    ELSE
    LET storage == m.symbol_storage_map[sym]
    IN CASE storage.tag \in {"Reg", "Primitive"} /\ storage.reg.kind = "General" ->
              IF storage.reg.r = reg THEN m
              ELSE Emit(m, "mov_reg64_reg64", reg, storage.reg.r)
         [] storage.tag \in {"Reg", "Primitive"} /\ storage.reg.kind = "Float" ->
              [m EXCEPT !.err = "WrongKind"]
         [] storage.tag = "Primitive" /\ storage.reg = None ->
              IF storage.base_offset % 8 # 0 /\ m.debug_assertions THEN [m EXCEPT !.err = "DebugAssert"]
              ELSE Emit(m, "mov_reg64_base32", reg, storage.base_offset)
         [] storage.tag = "ReferencedPrimitive"
                /\ storage.base_offset % 8 = 0 /\ storage.size = 8 ->
              Emit(m, "mov_reg64_base32", reg, storage.base_offset)
         [] storage.tag = "ReferencedPrimitive"
                /\ ~(storage.base_offset % 8 = 0 /\ storage.size = 8) ->
              [m EXCEPT !.err = "Todo"]
         [] storage.tag \in {"Complex", "NoData"} ->
              [m EXCEPT !.err = "UnsupportedStorage"]

\* load_to_specified_float_reg moving a value out of a general register.
load_to_specified_float_reg_AnyKind(m, sym, reg) ==
    IF sym \notin DOMAIN m.symbol_storage_map
    THEN [m EXCEPT !.err = "UnknownSymbol"]
    ELSE
    LET storage == m.symbol_storage_map[sym]
    IN CASE storage.tag \in {"Reg", "Primitive"} /\ storage.reg # None ->
              IF storage.reg.r = reg THEN m
              ELSE Emit(m, "mov_freg64_freg64", reg, storage.reg.r)
         [] storage.tag = "Primitive" /\ storage.reg = None ->
              IF storage.base_offset % 8 # 0 /\ m.debug_assertions THEN [m EXCEPT !.err = "DebugAssert"]
              ELSE Emit(m, "mov_freg64_base32", reg, storage.base_offset)
         [] storage.tag = "ReferencedPrimitive"
                /\ storage.base_offset % 8 = 0 /\ storage.size = 8 ->
              Emit(m, "mov_freg64_base32", reg, storage.base_offset)
         [] storage.tag = "ReferencedPrimitive"
                /\ ~(storage.base_offset % 8 = 0 /\ storage.size = 8) ->
              [m EXCEPT !.err = "Todo"]
         [] storage.tag \in {"Complex", "NoData"} ->
              [m EXCEPT !.err = "UnsupportedStorage"]

\* Lines 439-481.  The method borrows the manager immutably: it can only
\* append to the code buffer or end the process.
load_to_specified_float_reg(m, sym, reg) ==
    IF sym \notin DOMAIN m.symbol_storage_map
    THEN [m EXCEPT !.err = "UnknownSymbol"]
    ELSE
    LET storage == m.symbol_storage_map[sym]
    IN CASE storage.tag \in {"Reg", "Primitive"} /\ storage.reg.kind = "Float" ->
              IF storage.reg.r = reg THEN m
              ELSE Emit(m, "mov_freg64_freg64", reg, storage.reg.r)
         [] storage.tag \in {"Reg", "Primitive"} /\ storage.reg.kind = "General" ->
              [m EXCEPT !.err = "WrongKind"]
         [] storage.tag = "Primitive" /\ storage.reg = None ->
              IF storage.base_offset % 8 # 0 /\ m.debug_assertions THEN [m EXCEPT !.err = "DebugAssert"]
              ELSE Emit(m, "mov_freg64_base32", reg, storage.base_offset)
         [] storage.tag = "ReferencedPrimitive"
                /\ storage.base_offset % 8 = 0 /\ storage.size = 8 ->
              Emit(m, "mov_freg64_base32", reg, storage.base_offset)
         [] storage.tag = "ReferencedPrimitive"
                /\ ~(storage.base_offset % 8 = 0 /\ storage.size = 8) ->
              [m EXCEPT !.err = "Todo"]
         [] storage.tag \in {"Complex", "NoData"} ->
              [m EXCEPT !.err = "UnsupportedStorage"]

(***************************************************************************)
(* Stack areas, field projection and struct construction.                  *)
(***************************************************************************)
\* Rc::new: a cell no handle of the allocation map points to.
NewCell(allocation_map) ==
    CHOOSE id \in 1..(Cardinality(DOMAIN allocation_map) + 1) :
        /\ \A s \in DOMAIN allocation_map : allocation_map[s].id # id
        /\ \A other \in 1..(id - 1) :
              \E s \in DOMAIN allocation_map : allocation_map[s].id = other

\* Lines 715-722.
claim_stack_area(m, sym, size) ==
    LET Owned(c) ==
            IF c.m.err # "none" THEN c
            ELSE Ok([c.m EXCEPT
                       !.symbol_storage_map = Insert(@, sym, Complex(c.ret, size)),
                       !.allocation_map =
                           Insert(@, sym, Rc(NewCell(c.m.allocation_map), c.ret, size))],
                    c.ret)
    IN Owned(claim_stack_size(m, size))

\* The offset of a field taking every field before it for 8 bytes.
FieldOffset_EightEach(field_layouts, index) == 8 * index

\* Lines 504-508: the sum of the stack sizes of the first `index` fields.
RECURSIVE FieldOffset(_, _)
FieldOffset(field_layouts, index) ==
    IF index = 0 THEN 0
    ELSE FieldOffset(field_layouts, index - 1) + layout_stack_size(field_layouts[index])

\* load_field_at_index binding the field without a handle to the allocation.
load_field_at_index_NoHandle(m, sym, structure, index, field_layouts) ==
    IF ~(index < Len(field_layouts)) /\ m.debug_assertions
    THEN [m EXCEPT !.err = "DebugAssert"]
    ELSE IF structure \notin DOMAIN m.allocation_map
    THEN [m EXCEPT !.err = "UnknownSymbol"]
    ELSE IF structure \notin DOMAIN m.symbol_storage_map
    THEN [m EXCEPT !.err = "UnknownSymbol"]
    ELSE LET owned_data == m.allocation_map[structure]
             storage == m.symbol_storage_map[structure]
             \* Lines 504-508: the field sizes are added to an i32 one by one
             \* (take stops at the end of the list); no size is negative, so
             \* a step overflows when the whole sum does.
             taken == IF index < Len(field_layouts) THEN index ELSE Len(field_layouts)
             data_offset == wrapping_add(storage.base_offset,
                                         FieldOffset(field_layouts, taken))
             \* Line 509: the end of the structure is computed by the
             \* assertion only.
             data_end == wrapping_add(storage.base_offset, storage.size)
             layout == field_layouts[index + 1]
             size == layout_stack_size(layout)
         IN IF storage.tag # "Complex"
            THEN [m EXCEPT !.err = "UnsupportedStorage"]
            ELSE IF /\ m.overflow_checks
                    /\ \/ I32AddOverflows(storage.base_offset,
                                          FieldOffset(field_layouts, taken))
                       \/ /\ m.debug_assertions
                          /\ I32AddOverflows(storage.base_offset, storage.size)
            THEN [m EXCEPT !.err = "ArithmeticOverflow"]
            ELSE IF ~(data_offset < data_end) /\ m.debug_assertions
            THEN [m EXCEPT !.err = "DebugAssert"]
            \* Line 511: field_layouts[index].
            ELSE IF ~(index < Len(field_layouts))
            THEN [m EXCEPT !.err = "IndexOutOfBounds"]
            ELSE [m EXCEPT
                    !.symbol_storage_map =
                        Insert(@, sym,
                               IF is_primitive(layout)
                               THEN ReferencedPrimitive(data_offset, size)
                               ELSE Complex(data_offset, size))]

\* Lines 485-535.  `index` is the 0-based index of the source.
load_field_at_index(m, sym, structure, index, field_layouts) ==
    IF ~(index < Len(field_layouts)) /\ m.debug_assertions
    THEN [m EXCEPT !.err = "DebugAssert"]
    ELSE IF structure \notin DOMAIN m.allocation_map
    THEN [m EXCEPT !.err = "UnknownSymbol"]
    ELSE IF structure \notin DOMAIN m.symbol_storage_map
    THEN [m EXCEPT !.err = "UnknownSymbol"]
    ELSE LET owned_data == m.allocation_map[structure]
             storage == m.symbol_storage_map[structure]
             \* Lines 504-508: the field sizes are added to an i32 one by one
             \* (take stops at the end of the list); no size is negative, so
             \* a step overflows when the whole sum does.
             taken == IF index < Len(field_layouts) THEN index ELSE Len(field_layouts)
             data_offset == wrapping_add(storage.base_offset,
                                         FieldOffset(field_layouts, taken))
             \* Line 509: the end of the structure is computed by the
             \* assertion only.
             data_end == wrapping_add(storage.base_offset, storage.size)
             layout == field_layouts[index + 1]
             size == layout_stack_size(layout)
         IN IF storage.tag # "Complex"
            THEN [m EXCEPT !.err = "UnsupportedStorage"]
            ELSE IF /\ m.overflow_checks
                    /\ \/ I32AddOverflows(storage.base_offset,
                                          FieldOffset(field_layouts, taken))
                       \/ /\ m.debug_assertions
                          /\ I32AddOverflows(storage.base_offset, storage.size)
            THEN [m EXCEPT !.err = "ArithmeticOverflow"]
            ELSE IF ~(data_offset < data_end) /\ m.debug_assertions
            THEN [m EXCEPT !.err = "DebugAssert"]
            \* Line 511: field_layouts[index].
            ELSE IF ~(index < Len(field_layouts))
            THEN [m EXCEPT !.err = "IndexOutOfBounds"]
            ELSE [m EXCEPT
                    !.allocation_map = Insert(@, sym, owned_data),
                    !.symbol_storage_map =
                        Insert(@, sym,
                               IF is_primitive(layout)
                               THEN ReferencedPrimitive(data_offset, size)
                               ELSE Complex(data_offset, size))]

\* Lines 570-612.
copy_symbol_to_stack_offset(m, to_offset, sym, layout) ==
    LET Stored(l, mov) ==
            IF l.m.err # "none" THEN l.m ELSE Emit(l.m, mov, to_offset, l.ret)
    IN CASE layout.tag = "I64" ->
               IF to_offset % 8 # 0 /\ m.debug_assertions THEN [m EXCEPT !.err = "DebugAssert"]
               ELSE Stored(load_to_general_reg(m, sym), "mov_base32_reg64")
         [] layout.tag = "F64" ->
               IF to_offset % 8 # 0 /\ m.debug_assertions THEN [m EXCEPT !.err = "DebugAssert"]
               ELSE Stored(load_to_float_reg(m, sym), "mov_base32_freg64")
         [] OTHER -> [m EXCEPT !.err = "Todo"]

\* CopyFields storing every field at the base of the structure.
RECURSIVE CopyFields_SameOffset(_, _, _, _)
CopyFields_SameOffset(m, current_offset, fields, field_layouts) ==
    LET field_size == layout_stack_size(Head(field_layouts))
        Advanced(copied) ==
            IF copied.err # "none" THEN copied
            ELSE IF I32AddOverflows(current_offset, field_size) /\ copied.overflow_checks
            THEN [copied EXCEPT !.err = "ArithmeticOverflow"]
            ELSE CopyFields_SameOffset(copied, current_offset,
                                       Tail(fields), Tail(field_layouts))
    IN IF fields = <<>> \/ field_layouts = <<>> \/ m.err # "none" THEN m
       ELSE Advanced(copy_symbol_to_stack_offset(m, current_offset, Head(fields),
                                                 Head(field_layouts)))

\* Lines 553-558: the fields are copied in order, each at the offset after
\* the one before; zip stops at the shorter of the two lists.
RECURSIVE CopyFields(_, _, _, _)
CopyFields(m, current_offset, fields, field_layouts) ==
    LET field_size == layout_stack_size(Head(field_layouts))
        Advanced(copied) ==
            IF copied.err # "none" THEN copied
            ELSE IF I32AddOverflows(current_offset, field_size) /\ copied.overflow_checks
            THEN [copied EXCEPT !.err = "ArithmeticOverflow"]
            ELSE CopyFields(copied, wrapping_add(current_offset, field_size),
                            Tail(fields), Tail(field_layouts))
    IN IF fields = <<>> \/ field_layouts = <<>> \/ m.err # "none" THEN m
       ELSE Advanced(copy_symbol_to_stack_offset(m, current_offset, Head(fields),
                                                 Head(field_layouts)))

\* Lines 538-564.
create_struct(m, sym, layout, fields) ==
    LET struct_size == layout_stack_size(layout)
        Filled(c) ==
            IF c.m.err # "none" THEN c.m
            ELSE IF layout.tag = "Struct"
            THEN CopyFields(c.m, c.ret, fields, layout.fields)
            ELSE IF Len(fields) # 1 /\ m.debug_assertions
            THEN [c.m EXCEPT !.err = "DebugAssert"]
            ELSE IF fields = <<>> THEN [c.m EXCEPT !.err = "IndexOutOfBounds"]
            ELSE copy_symbol_to_stack_offset(c.m, c.ret, fields[1], layout)
    IN IF struct_size = 0
       THEN [m EXCEPT !.symbol_storage_map = Insert(@, sym, NoData)]
       ELSE Filled(claim_stack_area(m, sym, struct_size))

(***************************************************************************)
(* Incoming arguments.                                                     *)
(***************************************************************************)
\* general_reg_arg leaving the register in the free list.
general_reg_arg_NoRetain(m, sym, reg) ==
    [m EXCEPT !.symbol_storage_map = Insert(@, sym, Reg(General(reg))),
              !.general_used_regs = Append(@, <<reg, sym>>)]

\* Lines 676-680.
general_reg_arg(m, sym, reg) ==
    [m EXCEPT !.symbol_storage_map = Insert(@, sym, Reg(General(reg))),
              !.general_free_regs = Retain(@, reg),
              !.general_used_regs = Append(@, <<reg, sym>>)]

\* Lines 683-687.
float_reg_arg(m, sym, reg) ==
    [m EXCEPT !.symbol_storage_map = Insert(@, sym, Reg(Float(reg))),
              !.float_free_regs = Retain(@, reg),
              !.float_used_regs = Append(@, <<reg, sym>>)]

\* Lines 690-698.
primitive_stack_arg(m, sym, base_offset) ==
    [m EXCEPT !.symbol_storage_map = Insert(@, sym, Primitive(base_offset, None))]

\* Lines 701-704.
ret_pionter_arg(m, reg) ==
    [m EXCEPT !.symbol_storage_map = Insert(@, RET_POINTER, Reg(General(reg)))]

(***************************************************************************)
(* Release.                                                                *)
(***************************************************************************)
\* Lines 776-783 and 784-791: the first entry of `sym` leaves the used list
\* and its register is pushed on the free list.
FirstEntryOf(used_regs, sym) ==
    LET hits == {i \in 1..Len(used_regs) : used_regs[i][2] = sym}
    IN IF hits = {} THEN 0 ELSE CHOOSE i \in hits : \A j \in hits : i <= j

\* free_symbol dropping the used entries without giving the registers back.
free_symbol_KeepsRegs(m, sym) ==
    IF sym \notin DOMAIN m.symbol_storage_map
    THEN [m EXCEPT !.err = "UnknownSymbol"]
    ELSE LET storage == m.symbol_storage_map[sym]
             m0 == [m EXCEPT !.symbol_storage_map = Remove(@, sym)]
             m1 == CASE storage.tag = "Primitive" ->
                            free_stack_chunk(m0, storage.base_offset, 8)
                      [] storage.tag \in {"Complex", "ReferencedPrimitive"} ->
                            free_reference(m0, sym)
                      [] OTHER -> m0
             FreeGeneralAt(x, gi) ==
                 IF gi = 0 THEN x
                 ELSE [x EXCEPT !.general_used_regs = VecRemove(@, gi - 1)]
             FreeFloatAt(x, fi) ==
                 IF fi = 0 THEN x
                 ELSE [x EXCEPT !.float_used_regs = VecRemove(@, fi - 1)]
             Floats(x) == FreeFloatAt(x, FirstEntryOf(x.float_used_regs, sym))
             Generals(x) == FreeGeneralAt(x, FirstEntryOf(x.general_used_regs, sym))
             Registers(x) == IF x.err # "none" THEN x ELSE Floats(Generals(x))
         IN Registers(m1)

\* free_symbol taking a symbol without storage for one that needs no release.
free_symbol_IgnoresUnknown(m, sym) ==
    IF sym \notin DOMAIN m.symbol_storage_map
    THEN m
    ELSE LET storage == m.symbol_storage_map[sym]
             m0 == [m EXCEPT !.symbol_storage_map = Remove(@, sym)]
             m1 == CASE storage.tag = "Primitive" ->
                            free_stack_chunk(m0, storage.base_offset, 8)
                      [] storage.tag \in {"Complex", "ReferencedPrimitive"} ->
                            free_reference(m0, sym)
                      [] OTHER -> m0
             FreeGeneralAt(x, gi) ==
                 IF gi = 0 THEN x
                 ELSE [x EXCEPT
                         !.general_free_regs = Append(@, x.general_used_regs[gi][1]),
                         !.general_used_regs = VecRemove(@, gi - 1)]
             FreeFloatAt(x, fi) ==
                 IF fi = 0 THEN x
                 ELSE [x EXCEPT
                         !.float_free_regs = Append(@, x.float_used_regs[fi][1]),
                         !.float_used_regs = VecRemove(@, fi - 1)]
             Floats(x) == FreeFloatAt(x, FirstEntryOf(x.float_used_regs, sym))
             Generals(x) == FreeGeneralAt(x, FirstEntryOf(x.general_used_regs, sym))
             Registers(x) == IF x.err # "none" THEN x ELSE Floats(Generals(x))
         IN Registers(m1)

\* Lines 765-792.
free_symbol(m, sym) ==
    IF sym \notin DOMAIN m.symbol_storage_map
    THEN [m EXCEPT !.err = "UnknownSymbol"]
    ELSE LET storage == m.symbol_storage_map[sym]
             m0 == [m EXCEPT !.symbol_storage_map = Remove(@, sym)]
             m1 == CASE storage.tag = "Primitive" ->
                            free_stack_chunk(m0, storage.base_offset, 8)
                      [] storage.tag \in {"Complex", "ReferencedPrimitive"} ->
                            free_reference(m0, sym)
                      [] OTHER -> m0
             \* Lines 776-783 and 784-791, at the index of the first entry.
             FreeGeneralAt(x, gi) ==
                 IF gi = 0 THEN x
                 ELSE [x EXCEPT
                         !.general_free_regs = Append(@, x.general_used_regs[gi][1]),
                         !.general_used_regs = VecRemove(@, gi - 1)]
             FreeFloatAt(x, fi) ==
                 IF fi = 0 THEN x
                 ELSE [x EXCEPT
                         !.float_free_regs = Append(@, x.float_used_regs[fi][1]),
                         !.float_used_regs = VecRemove(@, fi - 1)]
             Floats(x) == FreeFloatAt(x, FirstEntryOf(x.float_used_regs, sym))
             Generals(x) == FreeGeneralAt(x, FirstEntryOf(x.general_used_regs, sym))
             Registers(x) == IF x.err # "none" THEN x ELSE Floats(Generals(x))
         IN Registers(m1)

(***************************************************************************)
(* Call sites.                                                             *)
(***************************************************************************)
\* PushGeneral putting each kept entry in front of those kept before it.
RECURSIVE PushGeneral_KeptInFront(_, _)
PushGeneral_KeptInFront(m, old) ==
    IF old = <<>> \/ m.err # "none" THEN m
    ELSE LET reg == Head(old)[1]
             saved_sym == Head(old)[2]
         IN IF general_caller_saved(reg)
            THEN PushGeneral_KeptInFront(
                    free_to_stack([m EXCEPT !.general_free_regs = Append(@, reg)],
                                  saved_sym, General(reg)),
                    Tail(old))
            ELSE PushGeneral_KeptInFront(
                    [m EXCEPT !.general_used_regs = <<<<reg, saved_sym>>>> \o @],
                    Tail(old))

\* Lines 863-870: m.general_used_regs has been emptied; `old` is what it held.
RECURSIVE PushGeneral(_, _)
PushGeneral(m, old) ==
    IF old = <<>> \/ m.err # "none" THEN m
    ELSE LET reg == Head(old)[1]
             saved_sym == Head(old)[2]
         IN IF general_caller_saved(reg)
            THEN PushGeneral(
                    free_to_stack([m EXCEPT !.general_free_regs = Append(@, reg)],
                                  saved_sym, General(reg)),
                    Tail(old))
            ELSE PushGeneral([m EXCEPT !.general_used_regs = Append(@, <<reg, saved_sym>>)],
                             Tail(old))

\* Lines 873-880.
RECURSIVE PushFloat(_, _)
PushFloat(m, old) ==
    IF old = <<>> \/ m.err # "none" THEN m
    ELSE LET reg == Head(old)[1]
             saved_sym == Head(old)[2]
         IN IF float_caller_saved(reg)
            THEN PushFloat(
                    free_to_stack([m EXCEPT !.float_free_regs = Append(@, reg)],
                                  saved_sym, Float(reg)),
                    Tail(old))
            ELSE PushFloat([m EXCEPT !.float_used_regs = Append(@, <<reg, saved_sym>>)],
                           Tail(old))

\* Lines 858-881.
push_used_caller_saved_regs_to_stack(m) ==
    LET Floats(m1) ==
            IF m1.err # "none" THEN m1
            ELSE PushFloat([m1 EXCEPT !.float_used_regs = <<>>], m1.float_used_regs)
    IN Floats(PushGeneral([m EXCEPT !.general_used_regs = <<>>], m.general_used_regs))

(***************************************************************************)
(* The manager at the moment an instruction is handed to the assembler:    *)
(* what the operation has done to it by then.                              *)
(***************************************************************************)
\* Lines 261 and 283-284 (296-297 for a reference): the symbol's storage has
\* been removed and the register got when mov_reg64_base32 is emitted.
load_to_general_reg_at_emit(m, sym) ==
    get_general_reg([m EXCEPT !.symbol_storage_map = Remove(@, sym)]).m

\* Lines 323 and 345-346 (358-359 for a reference).
load_to_float_reg_at_emit(m, sym) ==
    get_float_reg([m EXCEPT !.symbol_storage_map = Remove(@, sym)]).m

\* Lines 621-626: the symbol's storage has been removed and the slot claimed
\* when the store of the register is emitted.
free_to_stack_at_emit(m, sym) ==
    claim_stack_size([m EXCEPT !.symbol_storage_map = Remove(@, sym)], 8).m

\* Lines 580-581 and 585-586: the symbol has been loaded when the store to
\* to_offset is emitted.
copy_symbol_to_stack_offset_at_emit(m, sym, layout) ==
    IF layout.tag = "F64" THEN load_to_float_reg(m, sym).m ELSE load_to_general_reg(m, sym).m

(***************************************************************************)
(* Temporaries.  with_tmp_*_reg runs the client's callback between taking  *)
(* the register (line 239 / 251) and pushing it on the free list (line 241 *)
(* / 253); the callback is any sequence of operations on the manager.      *)
(***************************************************************************)
with_tmp_general_reg_enter(m) == get_general_reg(m)
with_tmp_general_reg_leave(m, reg) == [m EXCEPT !.general_free_regs = Append(@, reg)]
with_tmp_float_reg_enter(m) == get_float_reg(m)
with_tmp_float_reg_leave(m, reg) == [m EXCEPT !.float_free_regs = Append(@, reg)]

(***************************************************************************)
(* The state machine.                                                      *)
(***************************************************************************)
VARIABLES
    symbol_storage_map,
    allocation_map,
    general_free_regs,
    general_used_regs,
    general_used_callee_saved_regs,
    float_free_regs,
    float_used_regs,
    float_used_callee_saved_regs,
    free_stack_chunks,
    stack_size,
    overflow_checks, \* whether the build panics on integer overflow (rustc -C overflow-checks)
    debug_assertions, \* whether the build keeps debug_assert! (rustc -C debug-assertions)
    tmp_regs,   \* the registers held by the with_tmp_*_reg calls in progress
    phase,      \* "new", "args" (after reset), "body", "crashed"; "alloc", "done"
    err         \* the fatal error that ended the process, or "none"

vars == << symbol_storage_map, allocation_map, general_free_regs, general_used_regs,
           general_used_callee_saved_regs, float_free_regs, float_used_regs,
           float_used_callee_saved_regs, free_stack_chunks, stack_size,
           overflow_checks, debug_assertions, tmp_regs, phase, err >>

\* The manager as the operators take it; each call starts with an empty view
\* of the code buffer, so that m.buf is what the call emitted.
State ==
    [ symbol_storage_map |-> symbol_storage_map,
      allocation_map |-> allocation_map,
      general_free_regs |-> general_free_regs,
      general_used_regs |-> general_used_regs,
      general_used_callee_saved_regs |-> general_used_callee_saved_regs,
      float_free_regs |-> float_free_regs,
      float_used_regs |-> float_used_regs,
      float_used_callee_saved_regs |-> float_used_callee_saved_regs,
      free_stack_chunks |-> free_stack_chunks,
      stack_size |-> stack_size,
      overflow_checks |-> overflow_checks,
      debug_assertions |-> debug_assertions,
      buf |-> <<>>,
      err |-> "none" ]

Store(m) ==
    /\ symbol_storage_map' = m.symbol_storage_map
    /\ allocation_map' = m.allocation_map
    /\ general_free_regs' = m.general_free_regs
    /\ general_used_regs' = m.general_used_regs
    /\ general_used_callee_saved_regs' = m.general_used_callee_saved_regs
    /\ float_free_regs' = m.float_free_regs
    /\ float_used_regs' = m.float_used_regs
    /\ float_used_callee_saved_regs' = m.float_used_callee_saved_regs
    /\ free_stack_chunks' = m.free_stack_chunks
    /\ stack_size' = m.stack_size
    /\ overflow_checks' = overflow_checks
    /\ debug_assertions' = debug_assertions

\* The outcome of a call: the manager it leaves, or the end of the process
\* (whose memory is gone: only the error is kept).
Commit(m, next_phase, next_tmp) ==
    IF m.err # "none"
    THEN /\ Store(new_storage_manager)
         /\ tmp_regs' = <<>>
         /\ phase' = "crashed"
         /\ err' = m.err
    ELSE /\ m.stack_size <= MaxStack
         /\ Store(m)
         /\ tmp_regs' = next_tmp
         /\ phase' = next_phase
         /\ err' = "none"

Init ==
    /\ symbol_storage_map = new_storage_manager.symbol_storage_map
    /\ allocation_map = new_storage_manager.allocation_map
    /\ general_free_regs = new_storage_manager.general_free_regs
    /\ general_used_regs = new_storage_manager.general_used_regs
    /\ general_used_callee_saved_regs = new_storage_manager.general_used_callee_saved_regs
    /\ float_free_regs = new_storage_manager.float_free_regs
    /\ float_used_regs = new_storage_manager.float_used_regs
    /\ float_used_callee_saved_regs = new_storage_manager.float_used_callee_saved_regs
    /\ free_stack_chunks = new_storage_manager.free_stack_chunks
    /\ stack_size = new_storage_manager.stack_size
    \* No amount of this specification comes near 2^32: its behaviours are
    \* the same in both builds, and are explored in one.
    /\ overflow_checks = TRUE
    \* No call of this specification fails a debug assertion either.
    /\ debug_assertions = TRUE
    /\ tmp_regs = <<>>
    /\ phase = "new"
    /\ err = "none"

Live == DOMAIN symbol_storage_map
\* Symbols are opaque: a call that binds a new symbol takes the first unbound
\* one (any other choice gives the same manager up to the symbols' names).
Fresh ==
    LET free == {i \in 1..Len(SymbolOrder) : SymbolOrder[i] \notin Live}
    IN IF free = {} THEN {}
       ELSE {SymbolOrder[CHOOSE i \in free : \A j \in free : i <= j]}
Running == phase \in {"args", "body"}

\* The registers some live symbol's storage names.
BoundRegs == {symbol_storage_map[s].reg : s \in Live} \ {None}

\* What the client passes.
AreaSizes == {8, 12, 16}
FieldLayoutLists ==
    { <<I64>>, <<I64, F64>>, <<I32, I32, I32>>, <<Struct(<<I64, F64>>)>> }
StructLayouts == { Struct(<<>>), Struct(<<I64, I64>>), Struct(<<I64, F64>>), F64 }
FieldCount(layout) == IF layout.tag = "Struct" THEN Len(layout.fields) ELSE 1
FieldSymbols(n) == [1..n -> Live]

Reset ==
    /\ phase # "crashed"
    /\ tmp_regs = <<>>
    /\ Commit(reset(State), "args", <<>>)

\* The incoming arguments are bound right after reset, each fresh symbol to
\* the location the calling convention gives it, which no other argument has.
GeneralRegArg ==
    /\ phase = "args"
    /\ \E sym \in Fresh, reg \in GeneralRegs :
          /\ General(reg) \notin BoundRegs
          /\ Commit(general_reg_arg(State, sym, reg), "args", <<>>)

FloatRegArg ==
    /\ phase = "args"
    /\ \E sym \in Fresh, reg \in FloatRegs :
          /\ Float(reg) \notin BoundRegs
          /\ Commit(float_reg_arg(State, sym, reg), "args", <<>>)

PrimitiveStackArg ==
    /\ phase = "args"
    /\ \E sym \in Fresh, base_offset \in StackArgOffsets :
          /\ \A s \in Live : symbol_storage_map[s].tag = "Primitive"
                                => symbol_storage_map[s].base_offset # base_offset
          /\ Commit(primitive_stack_arg(State, sym, base_offset), "args", <<>>)

RetPointerArg ==
    /\ phase = "args"
    /\ RET_POINTER \notin Live
    /\ \E reg \in GeneralRegs :
          /\ General(reg) \notin BoundRegs
          /\ Commit(ret_pionter_arg(State, reg), "args", <<>>)

ClaimGeneralReg ==
    /\ Running
    /\ \E sym \in Fresh : Commit(claim_general_reg(State, sym).m, "body", tmp_regs)

ClaimFloatReg ==
    /\ Running
    /\ \E sym \in Fresh : Commit(claim_float_reg(State, sym).m, "body", tmp_regs)

LoadToGeneralReg ==
    /\ Running
    /\ \E sym \in AllSymbols : Commit(load_to_general_reg(State, sym).m, "body", tmp_regs)

LoadToFloatReg ==
    /\ Running
    /\ \E sym \in AllSymbols : Commit(load_to_float_reg(State, sym).m, "body", tmp_regs)

LoadToSpecifiedGeneralReg ==
    /\ Running
    /\ \E sym \in AllSymbols, reg \in GeneralRegs :
          Commit(load_to_specified_general_reg(State, sym, reg), "body", tmp_regs)

LoadToSpecifiedFloatReg ==
    /\ Running
    /\ \E sym \in AllSymbols, reg \in FloatRegs :
          Commit(load_to_specified_float_reg(State, sym, reg), "body", tmp_regs)

ClaimStackArea ==
    /\ Running
    /\ \E sym \in Fresh, size \in AreaSizes :
          Commit(claim_stack_area(State, sym, size).m, "body", tmp_regs)

\* The client passes the field layouts of the structure's own layout.
LoadFieldAtIndex ==
    /\ Running
    /\ \E sym \in Fresh, structure \in Live \cap Symbols, field_layouts \in FieldLayoutLists :
          \E index \in 0..(Len(field_layouts) - 1) :
             /\ symbol_storage_map[structure].tag = "Complex"
                   => layout_stack_size(Struct(field_layouts)) = symbol_storage_map[structure].size
             /\ Commit(load_field_at_index(State, sym, structure, index, field_layouts),
                       "body", tmp_regs)

CreateStruct ==
    /\ Running
    /\ \E sym \in Fresh, layout \in StructLayouts :
          \E fields \in FieldSymbols(FieldCount(layout)) :
             Commit(create_struct(State, sym, layout, fields), "body", tmp_regs)

FreeSymbol ==
    /\ Running
    /\ \E sym \in AllSymbols : Commit(free_symbol(State, sym), "body", tmp_regs)

PushUsedCallerSavedRegsToStack ==
    /\ Running
    /\ Commit(push_used_caller_saved_regs_to_stack(State), "body", tmp_regs)

WithTmpGeneralRegEnter ==
    /\ Running
    /\ Len(tmp_regs) < MaxTmp
    /\ LET g == with_tmp_general_reg_enter(State)
       IN Commit(g.m, "body", Append(tmp_regs, General(g.ret)))

WithTmpFloatRegEnter ==
    /\ Running
    /\ Len(tmp_regs) < MaxTmp
    /\ LET g == with_tmp_float_reg_enter(State)
       IN Commit(g.m, "body", Append(tmp_regs, Float(g.ret)))

WithTmpGeneralRegLeave ==
    /\ Running
    /\ tmp_regs # <<>>
    /\ Last(tmp_regs).kind = "General"
    /\ Commit(with_tmp_general_reg_leave(State, Last(tmp_regs).r), "body", Front(tmp_regs))

WithTmpFloatRegLeave ==
    /\ Running
    /\ tmp_regs # <<>>
    /\ Last(tmp_regs).kind = "Float"
    /\ Commit(with_tmp_float_reg_leave(State, Last(tmp_regs).r), "body", Front(tmp_regs))

Next ==
    \/ Reset
    \/ GeneralRegArg
    \/ FloatRegArg
    \/ PrimitiveStackArg
    \/ RetPointerArg
    \/ ClaimGeneralReg
    \/ ClaimFloatReg
    \/ LoadToGeneralReg
    \/ LoadToFloatReg
    \/ LoadToSpecifiedGeneralReg
    \/ LoadToSpecifiedFloatReg
    \/ ClaimStackArea
    \/ LoadFieldAtIndex
    \/ CreateStruct
    \/ FreeSymbol
    \/ PushUsedCallerSavedRegsToStack
    \/ WithTmpGeneralRegEnter
    \/ WithTmpFloatRegEnter
    \/ WithTmpGeneralRegLeave
    \/ WithTmpFloatRegLeave

Spec == Init /\ [][Next]_vars

(***************************************************************************)
(* The allocator on its own: claim_stack_size and free_stack_chunk are     *)
(* private functions of the frame size and the free-chunk list.  They are  *)
(* applied once to every frame of the sets below, in both builds.          *)
(***************************************************************************)
\* What a slot of the frame contributes to the free list: nothing, its first
\* 4 bytes (what is left free of an area of 12 bytes claimed as 16 and
\* projected), or all 8.
SlotStates == {0, 4, 8}
\* The sorted, coalesced list of the free parts of the slots k..1, the slot k
\* lying at -8k; `free` gives the free bytes of each slot.
RECURSIVE ChunksOf(_, _, _)
ChunksOf(free, k, acc) ==
    IF k = 0 THEN acc
    ELSE IF free[k] = 0 THEN ChunksOf(free, k - 1, acc)
    ELSE IF acc # <<>> /\ Last(acc)[1] + Last(acc)[2] = -8 * k
    THEN ChunksOf(free, k - 1,
                  [acc EXCEPT ![Len(acc)] = <<Last(acc)[1], Last(acc)[2] + free[k]>>])
    ELSE ChunksOf(free, k - 1, Append(acc, <<-8 * k, free[k]>>))
AllocChunkLists == {ChunksOf(free, AllocSlots, <<>>) : free \in [1..AllocSlots -> SlotStates]}
\* The frame holds the slots; the larger sizes are the last two a frame can have.
AllocStackSizes == {8 * AllocSlots, I32_MAX - 15, I32_MAX - 7}
\* The amounts asked for; the last four are the u32 values 2^31, 2^32 - 9,
\* 2^32 - 8 and 2^32 - 1.
AllocAmounts ==
    {0, 1, 8, 12, 16, 24, I32_MAX - 39, I32_MAX - 7, I32_MAX,
     -I32_MAX - 1, -9, -8, -1}
AllocOffsets == {-8 * k : k \in 1..AllocSlots}
AllocSizes == {4, 8, 12, 16}

AllocInit ==
    /\ symbol_storage_map = EmptyMap
    /\ allocation_map = EmptyMap
    /\ general_free_regs = GENERAL_DEFAULT_FREE_REGS
    /\ general_used_regs = <<>>
    /\ general_used_callee_saved_regs = {}
    /\ float_free_regs = FLOAT_DEFAULT_FREE_REGS
    /\ float_used_regs = <<>>
    /\ float_used_callee_saved_regs = {}
    /\ free_stack_chunks \in AllocChunkLists
    /\ stack_size \in AllocStackSizes
    /\ overflow_checks \in BOOLEAN
    /\ debug_assertions \in BOOLEAN
    /\ tmp_regs = <<>>
    /\ phase = "alloc"
    /\ err = "none"

AllocCommit(m) ==
    IF m.err # "none"
    THEN /\ Store(new_storage_manager)
         /\ tmp_regs' = <<>>
         /\ phase' = "crashed"
         /\ err' = m.err
    ELSE /\ Store(m)
         /\ tmp_regs' = <<>>
         /\ phase' = "done"
         /\ err' = "none"

AllocClaimStackSize ==
    /\ phase = "alloc"
    /\ \E amount \in AllocAmounts : AllocCommit(claim_stack_size(State, amount).m)

AllocFreeStackChunk ==
    /\ phase = "alloc"
    /\ \E base_offset \in AllocOffsets, size \in AllocSizes :
          /\ base_offset + size <= 0
          /\ AllocCommit(free_stack_chunk(State, base_offset, size))

AllocNext ==
    \/ AllocClaimStackSize
    \/ AllocFreeStackChunk

AllocSpec == AllocInit /\ [][AllocNext]_vars

(***************************************************************************)
(* A procedure of three symbols whose arguments may also come in the       *)
(* callee-saved registers r2 and f2, which are outside the default free    *)
(* lists (general_reg_arg and float_reg_arg take a register whether or not *)
(* it is free).  A used list can then hold two registers that are not      *)
(* caller-saved, and create_struct can spill a third symbol while it       *)
(* copies a field.  The client's calls are those of the general kind.      *)
(***************************************************************************)
WideSymbolOrder == <<"s0", "s1", "s2">>
WideSymbols == SeqToSet(WideSymbolOrder)
WideGeneralRegs == GeneralRegs \cup {"r2"}
WideFloatRegs == FloatRegs \cup {"f2"}
WideStructLayouts == { Struct(<<I64>>), Struct(<<I64, I64>>) }
WideFresh ==
    LET free == {i \in 1..Len(WideSymbolOrder) : WideSymbolOrder[i] \notin Live}
    IN IF free = {} THEN {}
       ELSE {WideSymbolOrder[CHOOSE i \in free : \A j \in free : i <= j]}

WideGeneralRegArg ==
    /\ phase = "args"
    /\ \E sym \in WideFresh, reg \in WideGeneralRegs :
          /\ General(reg) \notin BoundRegs
          /\ Commit(general_reg_arg(State, sym, reg), "args", <<>>)

WideFloatRegArg ==
    /\ phase = "args"
    /\ \E sym \in WideFresh, reg \in WideFloatRegs :
          /\ Float(reg) \notin BoundRegs
          /\ Commit(float_reg_arg(State, sym, reg), "args", <<>>)

WideClaimGeneralReg ==
    /\ Running
    /\ \E sym \in WideFresh : Commit(claim_general_reg(State, sym).m, "body", tmp_regs)

WideLoadToGeneralReg ==
    /\ Running
    /\ \E sym \in WideSymbols : Commit(load_to_general_reg(State, sym).m, "body", tmp_regs)

WideCreateStruct ==
    /\ Running
    /\ \E sym \in WideFresh, layout \in WideStructLayouts :
          \E fields \in FieldSymbols(FieldCount(layout)) :
             Commit(create_struct(State, sym, layout, fields), "body", tmp_regs)

WideFreeSymbol ==
    /\ Running
    /\ \E sym \in WideSymbols : Commit(free_symbol(State, sym), "body", tmp_regs)

WideNext ==
    \/ Reset
    \/ WideGeneralRegArg
    \/ WideFloatRegArg
    \/ WideClaimGeneralReg
    \/ WideLoadToGeneralReg
    \/ WideCreateStruct
    \/ WideFreeSymbol
    \/ PushUsedCallerSavedRegsToStack
    \/ WithTmpGeneralRegEnter
    \/ WithTmpGeneralRegLeave

WideSpec == Init /\ [][WideNext]_vars

(***************************************************************************)
(* Vocabulary of the properties.                                           *)
(***************************************************************************)
Occurrences(s, x) == Cardinality({i \in 1..Len(s) : s[i] = x})
UsedGeneral == {<<General(general_used_regs[i][1]), general_used_regs[i][2]>> :
                    i \in 1..Len(general_used_regs)}
UsedFloat == {<<Float(float_used_regs[i][1]), float_used_regs[i][2]>> :
                    i \in 1..Len(float_used_regs)}
\* The pairs (register, symbol) the used lists hold, and those the storage map names.
UsedPairs == UsedGeneral \cup UsedFloat
StoragePairs == {<<symbol_storage_map[s].reg, s>> :
                    s \in {x \in Live : symbol_storage_map[x].reg # None}}

OnStack(storage) == storage.tag \in {"Primitive", "ReferencedPrimitive", "Complex"}
Referencing(storage) == storage.tag \in {"ReferencedPrimitive", "Complex"}
Intersects(o1, s1, o2, s2) == o1 < o2 + s2 /\ o2 < o1 + s1
\* [offset, offset + size) meets a chunk of the list / lies inside one chunk of it.
MeetsFree(chunks, offset, size) ==
    \E i \in 1..Len(chunks) : Intersects(offset, size, chunks[i][1], chunks[i][2])
InsideFree(chunks, offset, size) ==
    \E i \in 1..Len(chunks) :
        chunks[i][1] <= offset /\ offset + size <= chunks[i][1] + chunks[i][2]
\* The allocations (cells) the allocation map holds handles to.
Allocations(map) == {map[s] : s \in DOMAIN map}
RECURSIVE SumSizes(_)
SumSizes(chunks) == IF chunks = <<>> THEN 0 ELSE Head(chunks)[2] + SumSizes(Tail(chunks))
RECURSIVE SumRounded(_)
SumRounded(allocs) ==
    IF allocs = {} THEN 0
    ELSE LET a == CHOOSE x \in allocs : TRUE
         IN RoundUp8(a.size) + SumRounded(allocs \ {a})

(***************************************************************************)
(* C1.  A pair (reg, sym) is in a used-register list if and only if the    *)
(* storage of sym is Reg(reg) or Stack(Primitive{reg: Some(reg)}).         *)
(* ret_pionter_arg binds RET_POINTER to a register without a used entry.   *)
(***************************************************************************)
C1_StorageUsedConsistency == Running => UsedPairs = StoragePairs

(***************************************************************************)
(* C2.  Between top-level operations every register of the default free    *)
(* set is exactly once in the free list or the used list of its kind.      *)
(***************************************************************************)
C2_Disjointness ==
    (Running /\ tmp_regs = <<>>) =>
        /\ \A reg \in GeneralRegs :
              Occurrences(general_free_regs, reg)
                + Cardinality({i \in 1..Len(general_used_regs) : general_used_regs[i][1] = reg}) = 1
        /\ \A reg \in FloatRegs :
              Occurrences(float_free_regs, reg)
                + Cardinality({i \in 1..Len(float_used_regs) : float_used_regs[i][1] = reg}) = 1

\* A symbol has been spilled and its register is bound or free again.
C2_Witness ==
    /\ phase = "body" /\ tmp_regs = <<>>
    /\ Len(general_used_regs) = 1 /\ Len(general_free_regs) = 1
    /\ \E s \in Live : /\ symbol_storage_map[s].tag = "Primitive"
                       /\ symbol_storage_map[s].reg = None
                       /\ symbol_storage_map[s].base_offset < 0

(***************************************************************************)
(* C3.  Every live Complex or ReferencedPrimitive symbol has an allocation *)
(* entry, and the reference count of each allocation is the number of live *)
(* symbols whose storage points into its range.                            *)
(***************************************************************************)
PointingInto(a) ==
    {s \in Live : /\ Referencing(symbol_storage_map[s])
                  /\ a.base_offset <= symbol_storage_map[s].base_offset
                  /\ symbol_storage_map[s].base_offset < a.base_offset + a.size}
C3_RefcountLaw ==
    Running =>
        /\ \A s \in Live : Referencing(symbol_storage_map[s]) => s \in DOMAIN allocation_map
        /\ \A a \in Allocations(allocation_map) :
              StrongCount(allocation_map, a.id) = Cardinality(PointingInto(a))

\* A structure and a field projected from it share one allocation.
C3_Witness ==
    /\ phase = "body"
    /\ \E a \in Allocations(allocation_map) :
          /\ StrongCount(allocation_map, a.id) = 2
          /\ \E s \in Live : symbol_storage_map[s].tag = "ReferencedPrimitive"

(***************************************************************************)
(* C4.  The chunk of an allocation is returned to the free list by the     *)
(* step that releases its last reference, not while a reference is left,   *)
(* and never a second time.                                                *)
(***************************************************************************)
C4_ReleasedWithLastReference ==
    [][ (phase = "body" /\ phase' \in {"body", "crashed"}) =>
            /\ err' # "DoubleFree"
            /\ phase' = "body" =>
                  \A a \in Allocations(allocation_map) :
                      IF a \in Allocations(allocation_map')
                      THEN ~MeetsFree(free_stack_chunks', a.base_offset, a.size)
                      ELSE /\ ~MeetsFree(free_stack_chunks, a.base_offset, a.size)
                           /\ InsideFree(free_stack_chunks', a.base_offset, a.size) ]_vars

\* The owner is gone; the field projected from it holds the last reference,
\* and releasing it returns the whole chunk.
C4_Witness ==
    /\ phase = "body"
    /\ \E s \in Live :
          /\ symbol_storage_map[s].tag = "ReferencedPrimitive"
          /\ symbol_storage_map[s].size < allocation_map[s].size
          /\ StrongCount(allocation_map, allocation_map[s].id) = 1
          /\ InsideFree(free_symbol(State, s).free_stack_chunks,
                        allocation_map[s].base_offset, allocation_map[s].size)

(***************************************************************************)
(* C5.  No stack range of a live symbol meets a chunk of the free list.    *)
(***************************************************************************)
C5_NoLiveFreeOverlap ==
    Running =>
        \A s \in Live :
            OnStack(symbol_storage_map[s]) =>
                ~MeetsFree(free_stack_chunks, symbol_storage_map[s].base_offset,
                           symbol_storage_map[s].size)

\* A spill slot and a claimed area are live next to a free chunk.
C5_Witness ==
    /\ phase = "body"
    /\ free_stack_chunks # <<>>
    /\ \E s \in Live : symbol_storage_map[s].tag = "Primitive"
    /\ \E s \in Live : symbol_storage_map[s].tag = "Complex"

(***************************************************************************)
(* C6.  The free-chunk list is strictly increasing in offset and no two    *)
(* consecutive chunks touch.                                               *)
(***************************************************************************)
C6_SortedCoalesced ==
    \A i \in 1..(Len(free_stack_chunks) - 1) :
        free_stack_chunks[i][1] + free_stack_chunks[i][2] < free_stack_chunks[i + 1][1]

\* Two chunks of the local frame are free with a live slot between them.
C6_Witness ==
    /\ Len(free_stack_chunks) >= 2
    /\ free_stack_chunks[1][1] = -24
    /\ free_stack_chunks[2] = <<-8, 8>>

(***************************************************************************)
(* C7.  stack_size is the sum of the sizes (rounded up to 8) of the live   *)
(* allocations of the local frame plus the sizes of the free chunks.       *)
(***************************************************************************)
LiveBytes ==
    8 * Cardinality({s \in Live : /\ symbol_storage_map[s].tag = "Primitive"
                                  /\ symbol_storage_map[s].base_offset < 0})
      + SumRounded(Allocations(allocation_map))
C7_FrameConservation ==
    Running => stack_size = LiveBytes + SumSizes(free_stack_chunks)


(***************************************************************************)
(* C8.  Claiming a fresh symbol and freeing it at once gives back the      *)
(* register free and used lists, the free-chunk list and stack_size.       *)
(***************************************************************************)
SameResources(a, b) ==
    /\ a.general_free_regs = b.general_free_regs
    /\ a.general_used_regs = b.general_used_regs
    /\ a.float_free_regs = b.float_free_regs
    /\ a.float_used_regs = b.float_used_regs
    /\ a.free_stack_chunks = b.free_stack_chunks
    /\ a.stack_size = b.stack_size
\* The manager after the claim went through and the symbol was freed.
RoundTrips(claimed, sym) ==
    claimed.err = "none" => SameResources(State, free_symbol(claimed, sym))

\* As claimed: for every claim.
C8_RoundTrip ==
    Running =>
        \A sym \in Symbols \ Live :
            /\ RoundTrips(claim_general_reg(State, sym).m, sym)
            /\ RoundTrips(claim_float_reg(State, sym).m, sym)
            /\ \A size \in AreaSizes : RoundTrips(claim_stack_area(State, sym, size).m, sym)

\* C8 as amended: for a register claim that finds a free register, and for a
\* claim of a stack area whose size is a multiple of 8 and that some free
\* chunk can hold.
C8_RoundTripWithoutSpillOrGrowth ==
    Running =>
        \A sym \in Symbols \ Live :
            /\ general_free_regs # <<>> => RoundTrips(claim_general_reg(State, sym).m, sym)
            /\ float_free_regs # <<>> => RoundTrips(claim_float_reg(State, sym).m, sym)
            /\ \A size \in AreaSizes :
                  (size % 8 = 0 /\ FittingChunk(free_stack_chunks, size) # 0)
                      => RoundTrips(claim_stack_area(State, sym, size).m, sym)

\* A register is free beside a bound one, a free chunk serves the claim of
\* 8 bytes, and both claims are undone by free_symbol.
C8_Witness ==
    /\ phase = "body"
    /\ general_free_regs # <<>> /\ general_used_regs # <<>>
    /\ \E sym \in Symbols \ Live :
          LET r == claim_general_reg(State, sym).m
              a == claim_stack_area(State, sym, 8).m
          IN /\ r.symbol_storage_map[sym].tag = "Reg"
             /\ free_symbol(r, sym).general_free_regs = general_free_regs
             /\ FittingChunk(free_stack_chunks, 8) # 0
             /\ a.free_stack_chunks # free_stack_chunks
             /\ a.stack_size = stack_size
             /\ free_symbol(a, sym).free_stack_chunks = free_stack_chunks

(***************************************************************************)
(* C9.  With every register of a kind in the used list, get_*_reg returns  *)
(* a register after spilling exactly one symbol, and every symbol keeps a  *)
(* storage: the spilled one a Primitive slot without register.             *)
(***************************************************************************)
AllUsed(regs, used_regs) == \A reg \in regs : \E i \in 1..Len(used_regs) : used_regs[i][1] = reg
SpilledOne(g, used_regs) ==
    /\ g.m.err = "none"
    /\ g.ret = used_regs[1][1]
    /\ DOMAIN g.m.symbol_storage_map = Live
    /\ {s \in Live : g.m.symbol_storage_map[s] # symbol_storage_map[s]} = {used_regs[1][2]}
    /\ g.m.symbol_storage_map[used_regs[1][2]].tag = "Primitive"
    /\ g.m.symbol_storage_map[used_regs[1][2]].reg = None
C9_LruProgress ==
    Running =>
        /\ (general_free_regs = <<>> /\ AllUsed(GeneralRegs, general_used_regs))
              => SpilledOne(get_general_reg(State), general_used_regs)
        /\ (float_free_regs = <<>> /\ AllUsed(FloatRegs, float_used_regs))
              => SpilledOne(get_float_reg(State), float_used_regs)

\* Both general registers are bound, and the older binding is the one spilled.
C9_Witness ==
    /\ phase = "body"
    /\ general_free_regs = <<>> /\ Len(general_used_regs) = 2
    /\ symbol_storage_map[general_used_regs[1][2]].tag = "Reg"
    /\ get_general_reg(State).m.symbol_storage_map[general_used_regs[1][2]].tag = "Primitive"
    /\ get_general_reg(State).m.symbol_storage_map[general_used_regs[2][2]].tag = "Reg"

(***************************************************************************)
(* C10.  A callee-saved register that is in a used list or handed out as   *)
(* a temporary is in the used-callee-saved set of its kind.                *)
(* general_reg_arg / float_reg_arg put a register in the used list without *)
(* recording it.                                                           *)
(***************************************************************************)
C10_CalleeSavedRecorded ==
    Running =>
        /\ \A reg \in GeneralRegs :
              (general_callee_saved(reg)
                 /\ (General(reg) \in SeqToSet(tmp_regs)
                        \/ \E i \in 1..Len(general_used_regs) : general_used_regs[i][1] = reg))
                  => reg \in general_used_callee_saved_regs
        /\ \A reg \in FloatRegs :
              (float_callee_saved(reg)
                 /\ (Float(reg) \in SeqToSet(tmp_regs)
                        \/ \E i \in 1..Len(float_used_regs) : float_used_regs[i][1] = reg))
                  => reg \in float_used_callee_saved_regs

(***************************************************************************)
(* C11.  When push_used_caller_saved_regs_to_stack has returned, no live   *)
(* symbol's storage names a caller-saved register, neither as Reg nor as   *)
(* the register of a Primitive.                                            *)
(* ret_pionter_arg binds RET_POINTER to a register outside the used list,  *)
(* which the call never visits.                                            *)
(***************************************************************************)
NamesCallerSaved(storage) ==
    \/ storage.reg.kind = "General" /\ general_caller_saved(storage.reg.r)
    \/ storage.reg.kind = "Float" /\ float_caller_saved(storage.reg.r)
C11_NoCallerSavedAfterPush ==
    Running =>
        LET pushed == push_used_caller_saved_regs_to_stack(State)
        IN pushed.err = "none" =>
              \A s \in DOMAIN pushed.symbol_storage_map :
                  ~NamesCallerSaved(pushed.symbol_storage_map[s])

(***************************************************************************)
(* C12.  push_used_caller_saved_regs_to_stack keeps the used entries whose *)
(* register is not caller-saved, in their order and with their symbols'    *)
(* storage; the register of every other entry goes to the free list and    *)
(* its symbol to Primitive{reg: None}; no other symbol's storage changes.  *)
(***************************************************************************)
InUsed(used_regs, s) == \E i \in 1..Len(used_regs) : used_regs[i][2] = s
SpilledOrKept(pushed, used_regs, free_regs, caller_saved(_)) ==
    \A i \in 1..Len(used_regs) :
        LET reg == used_regs[i][1]
            s == used_regs[i][2]
        IN IF caller_saved(reg)
           THEN /\ reg \in SeqToSet(free_regs)
                /\ pushed.symbol_storage_map[s].tag = "Primitive"
                /\ pushed.symbol_storage_map[s].reg = None
           ELSE pushed.symbol_storage_map[s] = symbol_storage_map[s]
C12_SpillsOnlyCallerSaved ==
    Running =>
        LET pushed == push_used_caller_saved_regs_to_stack(State)
            GeneralKept(e) == ~general_caller_saved(e[1])
            FloatKept(e) == ~float_caller_saved(e[1])
        IN pushed.err = "none" =>
              /\ pushed.general_used_regs = SelectSeq(general_used_regs, GeneralKept)
              /\ pushed.float_used_regs = SelectSeq(float_used_regs, FloatKept)
              /\ SpilledOrKept(pushed, general_used_regs, pushed.general_free_regs,
                               general_caller_saved)
              /\ SpilledOrKept(pushed, float_used_regs, pushed.float_free_regs,
                               float_caller_saved)
              /\ DOMAIN pushed.symbol_storage_map = Live
              /\ \A s \in Live :
                    (~InUsed(general_used_regs, s) /\ ~InUsed(float_used_regs, s))
                        => pushed.symbol_storage_map[s] = symbol_storage_map[s]

\* Three general registers are bound, a caller-saved one between two that
\* are not; the call spills the symbol of the middle one and keeps the other
\* two entries, the older still in front of the newer.
C12_Witness ==
    /\ phase = "body"
    /\ Len(general_used_regs) = 3
    /\ ~general_caller_saved(general_used_regs[1][1])
    /\ general_caller_saved(general_used_regs[2][1])
    /\ ~general_caller_saved(general_used_regs[3][1])
    /\ LET pushed == push_used_caller_saved_regs_to_stack(State)
           spilled == general_used_regs[2][2]
       IN /\ pushed.err = "none"
          /\ pushed.general_used_regs = <<general_used_regs[1], general_used_regs[3]>>
          /\ pushed.symbol_storage_map[spilled].tag = "Primitive"
          /\ pushed.symbol_storage_map[spilled].reg = None
          /\ \A s \in Live \ {spilled} :
                pushed.symbol_storage_map[s] = symbol_storage_map[s]

(***************************************************************************)
(* C13.  claim_general_reg / claim_float_reg on a symbol without storage   *)
(* returns a register r with storage[sym] = Reg(r) and (r, sym) the newest *)
(* used entry.  With an empty free list, r is the register of the oldest   *)
(* used entry, whose symbol is left in a stack slot without register.      *)
(***************************************************************************)
ClaimBound(c, sym, reg_storage, new_used_regs) ==
    /\ c.m.symbol_storage_map[sym] = Reg(reg_storage)
    /\ new_used_regs # <<>>
    /\ Last(new_used_regs) = <<c.ret, sym>>
\* The symbol of `oldest` is in a slot claimed by this call, to which its
\* register was stored.
SpilledToNewSlot(c, oldest, mov) ==
    LET slot == claim_stack_size(State, 8)
    IN /\ c.ret = oldest[1]
       /\ c.m.symbol_storage_map[oldest[2]] = Primitive(slot.ret, None)
       /\ c.m.buf = << <<mov, slot.ret, oldest[1]>> >>
       /\ c.m.stack_size = slot.m.stack_size
       /\ c.m.free_stack_chunks = slot.m.free_stack_chunks
\* The symbol of `oldest` keeps the slot it was loaded from, and nothing is
\* stored.
ReturnedToOwnSlot(c, oldest) ==
    /\ c.ret = oldest[1]
    /\ c.m.symbol_storage_map[oldest[2]] =
           Primitive(symbol_storage_map[oldest[2]].base_offset, None)
    /\ c.m.buf = <<>>
    /\ c.m.stack_size = stack_size
    /\ c.m.free_stack_chunks = free_stack_chunks

\* As claimed: the spilled symbol is always in a newly claimed slot, with a
\* store emitted.
C13_ClaimSpillsToNewSlot ==
    Running =>
        \A sym \in Symbols \ Live :
            /\ LET c == claim_general_reg(State, sym)
               IN c.m.err = "none" =>
                     /\ ClaimBound(c, sym, General(c.ret), c.m.general_used_regs)
                     /\ general_free_regs = <<>> =>
                           SpilledToNewSlot(c, general_used_regs[1], "mov_base32_reg64")
            /\ LET c == claim_float_reg(State, sym)
               IN c.m.err = "none" =>
                     /\ ClaimBound(c, sym, Float(c.ret), c.m.float_used_regs)
                     /\ float_free_regs = <<>> =>
                           SpilledToNewSlot(c, float_used_regs[1], "mov_base32_freg64")

\* C13 as amended: a spilled symbol held as Reg(r) goes to a newly claimed
\* slot with a store; one held as Primitive{offset, reg: Some(r)} keeps its
\* slot, and nothing is claimed or stored.
C13_ClaimBindsAndSpills ==
    Running =>
        \A sym \in Symbols \ Live :
            /\ LET c == claim_general_reg(State, sym)
               IN c.m.err = "none" =>
                     /\ ClaimBound(c, sym, General(c.ret), c.m.general_used_regs)
                     /\ general_free_regs = <<>> =>
                           IF symbol_storage_map[general_used_regs[1][2]].tag = "Reg"
                           THEN SpilledToNewSlot(c, general_used_regs[1], "mov_base32_reg64")
                           ELSE ReturnedToOwnSlot(c, general_used_regs[1])
            /\ LET c == claim_float_reg(State, sym)
               IN c.m.err = "none" =>
                     /\ ClaimBound(c, sym, Float(c.ret), c.m.float_used_regs)
                     /\ float_free_regs = <<>> =>
                           IF symbol_storage_map[float_used_regs[1][2]].tag = "Reg"
                           THEN SpilledToNewSlot(c, float_used_regs[1], "mov_base32_freg64")
                           ELSE ReturnedToOwnSlot(c, float_used_regs[1])

\* No general register is free, the oldest used entry holds its symbol as
\* Reg, and the claim of a fresh symbol spills it to a new slot.
C13_Witness ==
    /\ phase = "body"
    /\ general_free_regs = <<>> /\ general_used_regs # <<>>
    /\ symbol_storage_map[general_used_regs[1][2]].tag = "Reg"
    /\ \E sym \in Symbols \ Live :
          LET c == claim_general_reg(State, sym)
          IN /\ c.m.err = "none"
             /\ c.m.symbol_storage_map[sym] = Reg(General(general_used_regs[1][1]))
             /\ c.m.symbol_storage_map[general_used_regs[1][2]].tag = "Primitive"
             /\ Len(c.m.buf) = 1

(***************************************************************************)
(* C14.  load_to_general_reg / load_to_float_reg on a symbol stored as     *)
(* Primitive{offset, reg: None} gets a register r, emits one load of r     *)
(* from offset, appends (r, sym) to the used list and leaves the symbol    *)
(* as Primitive{offset, reg: Some(r)}; its slot is not freed.              *)
(***************************************************************************)
InSlot(s) ==
    /\ s \in Live
    /\ symbol_storage_map[s].tag = "Primitive"
    /\ symbol_storage_map[s].reg = None
CountOp(buf, op) == Cardinality({i \in 1..Len(buf) : buf[i][1] = op})
LoadedFromSlot(l, sym, reg_storage, new_used_regs, mov) ==
    LET offset == symbol_storage_map[sym].base_offset
    IN /\ l.m.symbol_storage_map[sym] = Primitive(offset, reg_storage)
       /\ new_used_regs # <<>>
       /\ Last(new_used_regs) = <<l.ret, sym>>
       /\ l.m.buf # <<>>
       /\ Last(l.m.buf) = <<mov, l.ret, offset>>
       /\ CountOp(l.m.buf, "mov_reg64_base32") + CountOp(l.m.buf, "mov_freg64_base32") = 1
       /\ ~MeetsFree(l.m.free_stack_chunks, offset, 8)
       /\ l.m.allocation_map = allocation_map
C14_LoadFromSlot ==
    Running =>
        \A sym \in AllSymbols :
            InSlot(sym) =>
                /\ LET l == load_to_general_reg(State, sym)
                   IN l.m.err = "none" =>
                         LoadedFromSlot(l, sym, General(l.ret), l.m.general_used_regs,
                                        "mov_reg64_base32")
                /\ LET l == load_to_float_reg(State, sym)
                   IN l.m.err = "none" =>
                         LoadedFromSlot(l, sym, Float(l.ret), l.m.float_used_regs,
                                        "mov_freg64_base32")

\* A spilled symbol is loaded back while no general register is free: another
\* symbol is spilled, then the load is emitted.
C14_Witness ==
    /\ phase = "body"
    /\ general_free_regs = <<>>
    /\ \E sym \in Symbols :
          /\ InSlot(sym)
          /\ symbol_storage_map[sym].base_offset < 0
          /\ LET l == load_to_general_reg(State, sym)
             IN /\ l.m.err = "none"
                /\ Len(l.m.buf) = 2
                /\ l.m.symbol_storage_map[sym].reg = General(l.ret)

(***************************************************************************)
(* C15.  load_to_general_reg / load_to_float_reg on a symbol stored as     *)
(* ReferencedPrimitive{offset, size} with offset % 8 = 0 and size = 8      *)
(* emits a load of r from offset, leaves the symbol as Reg(r) and removes  *)
(* its allocation-map entry; the chunk is in the free list afterwards if   *)
(* and only if the symbol held the last reference to it.                   *)
(***************************************************************************)
InAlignedReference(s) ==
    /\ s \in Live
    /\ symbol_storage_map[s].tag = "ReferencedPrimitive"
    /\ symbol_storage_map[s].base_offset % 8 = 0
    /\ symbol_storage_map[s].size = 8
    /\ s \in DOMAIN allocation_map
LoadedFromReference(l, sym, reg_storage, new_used_regs, mov) ==
    LET offset == symbol_storage_map[sym].base_offset
        chunk == allocation_map[sym]
    IN /\ l.m.symbol_storage_map[sym] = Reg(reg_storage)
       /\ new_used_regs # <<>>
       /\ Last(new_used_regs) = <<l.ret, sym>>
       /\ l.m.buf # <<>>
       /\ Last(l.m.buf) = <<mov, l.ret, offset>>
       /\ CountOp(l.m.buf, "mov_reg64_base32") + CountOp(l.m.buf, "mov_freg64_base32") = 1
       /\ l.m.allocation_map = Remove(allocation_map, sym)
       /\ ~MeetsFree(free_stack_chunks, chunk.base_offset, chunk.size)
       /\ IF StrongCount(allocation_map, chunk.id) = 1
          THEN InsideFree(l.m.free_stack_chunks, chunk.base_offset, chunk.size)
          ELSE ~MeetsFree(l.m.free_stack_chunks, chunk.base_offset, chunk.size)
C15_LoadFromReference ==
    Running =>
        \A sym \in AllSymbols :
            InAlignedReference(sym) =>
                /\ LET l == load_to_general_reg(State, sym)
                   IN l.m.err = "none" =>
                         LoadedFromReference(l, sym, General(l.ret), l.m.general_used_regs,
                                             "mov_reg64_base32")
                /\ LET l == load_to_float_reg(State, sym)
                   IN l.m.err = "none" =>
                         LoadedFromReference(l, sym, Float(l.ret), l.m.float_used_regs,
                                             "mov_freg64_base32")

\* A field symbol holds the last reference to a chunk (its structure has
\* been freed), and loading it returns the chunk to the free list.
C15_Witness ==
    /\ phase = "body"
    /\ \E sym \in Symbols :
          /\ InAlignedReference(sym)
          /\ StrongCount(allocation_map, allocation_map[sym].id) = 1
          /\ LET l == load_to_float_reg(State, sym)
             IN /\ l.m.err = "none"
                /\ l.m.symbol_storage_map[sym].tag = "Reg"
                /\ l.m.free_stack_chunks # free_stack_chunks

(***************************************************************************)
(* C16.  load_to_general_reg / load_to_float_reg on a symbol already in a  *)
(* register of that kind (Reg(r) or Primitive{reg: Some(r)}) returns r,    *)
(* emits nothing and changes nothing; so a second load of the same symbol  *)
(* right after a first returns the same register and changes nothing.      *)
(***************************************************************************)
InRegister(s, kind) == s \in Live /\ symbol_storage_map[s].reg.kind = kind
Unchanged(l, m, reg) ==
    /\ l.m.err = "none"
    /\ l.ret = reg
    /\ l.m.buf = <<>>
    /\ l.m = [m EXCEPT !.buf = <<>>]
C16_LoadIdempotent ==
    Running =>
        \A sym \in AllSymbols :
            /\ InRegister(sym, "General") =>
                  Unchanged(load_to_general_reg(State, sym), State,
                            symbol_storage_map[sym].reg.r)
            /\ InRegister(sym, "Float") =>
                  Unchanged(load_to_float_reg(State, sym), State,
                            symbol_storage_map[sym].reg.r)
            /\ sym \in Live =>
                  /\ LET first == load_to_general_reg(State, sym)
                     IN first.m.err = "none" =>
                           Unchanged(load_to_general_reg([first.m EXCEPT !.buf = <<>>], sym),
                                     first.m, first.ret)
                  /\ LET first == load_to_float_reg(State, sym)
                     IN first.m.err = "none" =>
                           Unchanged(load_to_float_reg([first.m EXCEPT !.buf = <<>>], sym),
                                     first.m, first.ret)

\* One symbol is held as Reg in a float register and another as a Primitive
\* with a general register; loading each into its kind changes nothing.
C16_Witness ==
    /\ phase = "body"
    /\ \E s \in Symbols, u \in Symbols :
          /\ InRegister(s, "Float") /\ symbol_storage_map[s].tag = "Reg"
          /\ InRegister(u, "General") /\ symbol_storage_map[u].tag = "Primitive"
          /\ load_to_float_reg(State, s).m = State
          /\ load_to_general_reg(State, u).m = State

(***************************************************************************)
(* C17.  load_to_specified_general_reg / load_to_specified_float_reg,      *)
(* when it returns, leaves the storage map, the allocation map, the        *)
(* register lists and sets, the free chunks and stack_size as they were;   *)
(* it emits at most one instruction, and none when the symbol is already   *)
(* in the requested register.                                              *)
(***************************************************************************)
OnlyEmits(l, in_requested) ==
    l.err = "none" =>
        /\ [l EXCEPT !.buf = <<>>] = State
        /\ Len(l.buf) <= 1
        /\ in_requested => l.buf = <<>>
C17_SpecifiedLoadKeepsState ==
    Running =>
        \A sym \in AllSymbols :
            /\ \A reg \in GeneralRegs :
                  OnlyEmits(load_to_specified_general_reg(State, sym, reg),
                            sym \in Live /\ symbol_storage_map[sym].reg = General(reg))
            /\ \A reg \in FloatRegs :
                  OnlyEmits(load_to_specified_float_reg(State, sym, reg),
                            sym \in Live /\ symbol_storage_map[sym].reg = Float(reg))

\* A symbol held in one general register is moved to the other, and a symbol
\* in a stack slot is loaded into a float register: one instruction each.
C17_Witness ==
    /\ phase = "body"
    /\ \E s \in Symbols, u \in Symbols, reg \in GeneralRegs, freg \in FloatRegs :
          /\ InRegister(s, "General") /\ symbol_storage_map[s].reg.r # reg
          /\ Len(load_to_specified_general_reg(State, s, reg).buf) = 1
          /\ InSlot(u)
          /\ load_to_specified_float_reg(State, u, freg).err = "none"
          /\ Len(load_to_specified_float_reg(State, u, freg).buf) = 1

(***************************************************************************)
(* C18.  load_field_at_index(sym, structure, index, field_layouts) on a    *)
(* structure stored as Complex{base, size} binds sym to the range that     *)
(* starts at base plus the stack sizes of the fields before `index` and    *)
(* has the field's size: ReferencedPrimitive for a primitive field,        *)
(* Complex otherwise.  Nothing is emitted, the structure keeps its storage *)
(* and allocation entry, and the allocation gains exactly one reference.   *)
(***************************************************************************)
IsStructure(s) ==
    /\ s \in Live
    /\ s \in DOMAIN allocation_map
    /\ symbol_storage_map[s].tag = "Complex"
FieldBound(f, sym, structure, index, field_layouts) ==
    LET base == symbol_storage_map[structure].base_offset
        before == layout_stack_size(Struct(SubSeq(field_layouts, 1, index)))
        field == field_layouts[index + 1]
        cell == allocation_map[structure].id
    IN /\ f.symbol_storage_map[sym] =
             IF field.tag \in {"I64", "F64", "I32"}
             THEN ReferencedPrimitive(base + before, layout_stack_size(field))
             ELSE Complex(base + before, layout_stack_size(field))
       /\ f.buf = <<>>
       /\ \A s \in Live : f.symbol_storage_map[s] = symbol_storage_map[s]
       /\ \A s \in DOMAIN allocation_map : f.allocation_map[s] = allocation_map[s]
       /\ DOMAIN f.allocation_map = DOMAIN allocation_map \cup {sym}
       /\ f.allocation_map[sym] = allocation_map[structure]
       /\ StrongCount(f.allocation_map, cell) = StrongCount(allocation_map, cell) + 1
       /\ [f EXCEPT !.symbol_storage_map = symbol_storage_map,
                    !.allocation_map = allocation_map] = State
C18_FieldProjection ==
    Running =>
        \A sym \in Symbols \ Live, structure \in Symbols, field_layouts \in FieldLayoutLists :
            \A index \in 0..(Len(field_layouts) - 1) :
                IsStructure(structure) =>
                    LET f == load_field_at_index(State, sym, structure, index, field_layouts)
                    IN /\ layout_stack_size(Struct(field_layouts))
                              = symbol_storage_map[structure].size => f.err = "none"
                       /\ f.err = "none" =>
                              FieldBound(f, sym, structure, index, field_layouts)

\* The second 4-byte field of a 12-byte structure is projected: it lies 4
\* bytes into the structure.
C18_Witness ==
    /\ phase = "body"
    /\ \E sym \in Symbols \ Live, structure \in Symbols :
          /\ IsStructure(structure)
          /\ symbol_storage_map[structure].size = 12
          /\ LET f == load_field_at_index(State, sym, structure, 1, <<I32, I32, I32>>)
             IN /\ f.err = "none"
                /\ f.symbol_storage_map[sym] =
                       ReferencedPrimitive(symbol_storage_map[structure].base_offset + 4, 4)
                /\ StrongCount(f.allocation_map, allocation_map[structure].id) = 2

(***************************************************************************)
(* C19.  When free_symbol(sym) has returned, sym is in neither map and in  *)
(* neither used list; a register its storage named is in the free list; a *)
(* Primitive's slot is in the free chunks; for NoData nothing else has     *)
(* changed; the storage, allocation entries and used entries of the other  *)
(* symbols are as before.                                                  *)
(***************************************************************************)
Released(f, sym) ==
    LET storage == symbol_storage_map[sym]
        OfOthers(e) == e[2] # sym
    IN /\ sym \notin DOMAIN f.symbol_storage_map
       /\ sym \notin DOMAIN f.allocation_map
       /\ ~InUsed(f.general_used_regs, sym)
       /\ ~InUsed(f.float_used_regs, sym)
       /\ storage.reg.kind = "General" => storage.reg.r \in SeqToSet(f.general_free_regs)
       /\ storage.reg.kind = "Float" => storage.reg.r \in SeqToSet(f.float_free_regs)
       /\ storage.tag = "Primitive" => InsideFree(f.free_stack_chunks, storage.base_offset, 8)
       /\ storage.tag = "NoData" =>
             f = [State EXCEPT !.symbol_storage_map = Remove(@, sym)]
       /\ f.symbol_storage_map = Remove(symbol_storage_map, sym)
       /\ \A s \in DOMAIN allocation_map \ {sym} :
             s \in DOMAIN f.allocation_map /\ f.allocation_map[s] = allocation_map[s]
       /\ f.general_used_regs = SelectSeq(general_used_regs, OfOthers)
       /\ f.float_used_regs = SelectSeq(float_used_regs, OfOthers)
C19_FreeSymbolReleases ==
    Running =>
        \A sym \in AllSymbols :
            (sym \in Live /\ free_symbol(State, sym).err = "none")
                => Released(free_symbol(State, sym), sym)

\* The same for the client's symbols alone, RET_POINTER left aside.
C19_ClientSymbolsReleased ==
    Running =>
        \A sym \in Symbols :
            (sym \in Live /\ free_symbol(State, sym).err = "none")
                => Released(free_symbol(State, sym), sym)

(***************************************************************************)
(* C20.  free_symbol on a symbol that is not in the symbol storage map     *)
(* ends the process; so a second free_symbol of a symbol, straight after   *)
(* a first that returned, always does.                                     *)
(***************************************************************************)
C20_FreeUnknownIsFatal ==
    Running =>
        \A sym \in AllSymbols :
            /\ sym \notin Live => free_symbol(State, sym).err = "UnknownSymbol"
            /\ (sym \in Live /\ free_symbol(State, sym).err = "none")
                  => free_symbol(free_symbol(State, sym), sym).err = "UnknownSymbol"

\* A symbol is bound and another is not: freeing the second is fatal, and so
\* is freeing the first twice.
C20_Witness ==
    /\ phase = "body"
    /\ \E s \in Symbols, u \in Symbols :
          /\ s \in Live /\ u \notin Live
          /\ free_symbol(State, u).err = "UnknownSymbol"
          /\ free_symbol(State, s).err = "none"
          /\ free_symbol(free_symbol(State, s), s).err = "UnknownSymbol"

(***************************************************************************)
(* C21.  Loading a symbol held in a float register into a general          *)
(* register, or one held in a general register into a float register,      *)
(* with load_to_*_reg or load_to_specified_*_reg, ends the process with    *)
(* the wrong-kind error: no register is returned and nothing is emitted.   *)
(***************************************************************************)
C21_WrongKindIsFatal ==
    Running =>
        \A sym \in AllSymbols :
            /\ InRegister(sym, "Float") =>
                  /\ load_to_general_reg(State, sym).m.err = "WrongKind"
                  /\ load_to_general_reg(State, sym).m.buf = <<>>
                  /\ \A reg \in GeneralRegs :
                        /\ load_to_specified_general_reg(State, sym, reg).err = "WrongKind"
                        /\ load_to_specified_general_reg(State, sym, reg).buf = <<>>
            /\ InRegister(sym, "General") =>
                  /\ load_to_float_reg(State, sym).m.err = "WrongKind"
                  /\ load_to_float_reg(State, sym).m.buf = <<>>
                  /\ \A reg \in FloatRegs :
                        /\ load_to_specified_float_reg(State, sym, reg).err = "WrongKind"
                        /\ load_to_specified_float_reg(State, sym, reg).buf = <<>>

\* A process ended by a wrong-kind load: the error is raised by nothing else.
C21_Witness == phase = "crashed" /\ err = "WrongKind"

(***************************************************************************)
(* C22.  The register with_tmp_general_reg / with_tmp_float_reg hands to   *)
(* its callback is bound to no symbol and, while the callback runs, is in  *)
(* no free list and no used list, so that no operation can hand it out or  *)
(* spill it; a symbol spilled to obtain it is left as Primitive{reg:       *)
(* None}; when with_tmp_*_reg returns, the register is exactly once in the *)
(* free list and bound to no symbol, and no storage has been touched.      *)
(* ret_pionter_arg leaves the register of RET_POINTER in the free list,    *)
(* from where it is handed out as a temporary.                             *)
(***************************************************************************)
HeldBy(map, reg_storage) == {s \in DOMAIN map : map[s].reg = reg_storage}
\* The register got for the callback, and the symbol spilled for it.
Obtained(g, reg_storage, free_regs, used_regs, holders) ==
    g.m.err = "none" =>
        /\ HeldBy(g.m.symbol_storage_map, reg_storage) \subseteq holders
        /\ free_regs = <<>> =>
              /\ g.m.symbol_storage_map[used_regs[1][2]].tag = "Primitive"
              /\ g.m.symbol_storage_map[used_regs[1][2]].reg = None
\* Back from the callback.
Returned(f, reg_storage, free_regs, holders) ==
    /\ Occurrences(free_regs, reg_storage.r) = 1
    /\ HeldBy(f.symbol_storage_map, reg_storage) \subseteq holders
    /\ f.symbol_storage_map = symbol_storage_map
TmpRegsIsolated(holders) ==
    /\ Obtained(with_tmp_general_reg_enter(State),
                General(with_tmp_general_reg_enter(State).ret),
                general_free_regs, general_used_regs, holders)
    /\ Obtained(with_tmp_float_reg_enter(State),
                Float(with_tmp_float_reg_enter(State).ret),
                float_free_regs, float_used_regs, holders)
    /\ \A i \in 1..Len(tmp_regs) :
          /\ HeldBy(symbol_storage_map, tmp_regs[i]) \subseteq holders
          /\ tmp_regs[i].r \notin SeqToSet(general_free_regs) \cup SeqToSet(float_free_regs)
          /\ \A j \in 1..Len(general_used_regs) : general_used_regs[j][1] # tmp_regs[i].r
          /\ \A j \in 1..Len(float_used_regs) : float_used_regs[j][1] # tmp_regs[i].r
    /\ (tmp_regs # <<>> /\ Last(tmp_regs).kind = "General") =>
          Returned(with_tmp_general_reg_leave(State, Last(tmp_regs).r), Last(tmp_regs),
                   with_tmp_general_reg_leave(State, Last(tmp_regs).r).general_free_regs,
                   holders)
    /\ (tmp_regs # <<>> /\ Last(tmp_regs).kind = "Float") =>
          Returned(with_tmp_float_reg_leave(State, Last(tmp_regs).r), Last(tmp_regs),
                   with_tmp_float_reg_leave(State, Last(tmp_regs).r).float_free_regs,
                   holders)
C22_TmpRegIsolated == Running => TmpRegsIsolated({})

\* The same with RET_POINTER allowed to hold the temporary register.
C22_TmpRegIsolatedFromClientSymbols == Running => TmpRegsIsolated({RET_POINTER})

(***************************************************************************)
(* C23.  create_struct with a layout of size 0 binds sym to NoData and     *)
(* does nothing else.  Otherwise sym is bound to Complex{base, size} where *)
(* base is what claim_stack_size gives for the structure's size, with a    *)
(* new allocation referenced once, and the stores into the structure are,  *)
(* in field order, one per field at base plus the stack sizes of the       *)
(* fields before it: an integer store for I64, a float store for F64.      *)
(***************************************************************************)
FieldsOf(layout) == IF layout.tag = "Struct" THEN layout.fields ELSE <<layout>>
StoreOp(layout) == IF layout.tag = "F64" THEN "mov_base32_freg64" ELSE "mov_base32_reg64"
\* The stores of `buf` into [base, base + size), without their source.
StoresInto(buf, base, size) ==
    LET IntoArea(e) == /\ e[1] \in {"mov_base32_reg64", "mov_base32_freg64"}
                       /\ base <= e[2] /\ e[2] < base + size
        stores == SelectSeq(buf, IntoArea)
    IN [i \in 1..Len(stores) |-> <<stores[i][1], stores[i][2]>>]
StructCreated(f, sym, layout) ==
    LET size == layout_stack_size(layout)
        base == claim_stack_size(State, size).ret
        field_layouts == FieldsOf(layout)
    IN IF size = 0
       THEN f = [State EXCEPT !.symbol_storage_map = Insert(@, sym, NoData)]
       ELSE /\ f.symbol_storage_map[sym] = Complex(base, size)
            /\ sym \in DOMAIN f.allocation_map
            /\ f.allocation_map[sym].base_offset = base
            /\ f.allocation_map[sym].size = size
            /\ \A s \in DOMAIN allocation_map :
                  allocation_map[s].id # f.allocation_map[sym].id
            /\ StrongCount(f.allocation_map, f.allocation_map[sym].id) = 1
            /\ ~MeetsFree(f.free_stack_chunks, base, size)
            /\ base >= -f.stack_size
            /\ StoresInto(f.buf, base, size) =
                  [i \in 1..Len(field_layouts) |->
                      <<StoreOp(field_layouts[i]),
                        base + layout_stack_size(Struct(SubSeq(field_layouts, 1, i - 1)))>>]
C23_CreateStruct ==
    Running =>
        \A sym \in Symbols \ Live, layout \in StructLayouts :
            \A fields \in FieldSymbols(FieldCount(layout)) :
                create_struct(State, sym, layout, fields).err = "none"
                    => StructCreated(create_struct(State, sym, layout, fields), sym, layout)

\* The frame is empty, `a` is in a general register and `b` in a float
\* register: create_struct([I64, F64], [a, b]) claims 16 bytes and stores a
\* at -16 and b at -8.
C23_Witness ==
    /\ phase = "body" /\ stack_size = 0
    /\ \E sym \in Symbols \ Live, a \in Live, b \in Live :
          /\ InRegister(a, "General") /\ InRegister(b, "Float")
          /\ LET f == create_struct(State, sym, Struct(<<I64, F64>>), <<a, b>>)
             IN /\ f.err = "none"
                /\ f.stack_size = 16
                /\ f.symbol_storage_map[sym] = Complex(-16, 16)
                /\ f.buf = << <<"mov_base32_reg64", -16, symbol_storage_map[a].reg.r>>,
                              <<"mov_base32_freg64", -8, symbol_storage_map[b].reg.r>> >>

(***************************************************************************)
(* C24.  For every amount above 0 and every frame, when no free chunk      *)
(* holds the amount rounded up to a multiple of 8: if stack_size plus the  *)
(* rounded amount exceeds 2^31 - 1, claim_stack_size and claim_stack_area  *)
(* end the process and return no offset; otherwise stack_size grows by     *)
(* exactly the rounded amount.  stack_size never exceeds 2^31 - 1.         *)
(* For the amounts above 2^32 - 8 the rounding itself leaves u32: a build  *)
(* without overflow checks goes on with the amount 0 and returns an        *)
(* offset.                                                                 *)
(***************************************************************************)
\* What is missing from `amount` to the next multiple of 8.
Pad8(amount) == (8 - (amount % 8)) % 8
\* The rounded amount is at least 2^31 (amounts held as negatives), or does
\* not fit between stack_size and 2^31 - 1.
ExceedsFrame(amount) == amount < 0 \/ amount > (I32_MAX - stack_size) - Pad8(amount)
SomeChunkFits(amount) ==
    /\ amount >= 0
    /\ \E i \in 1..Len(free_stack_chunks) : free_stack_chunks[i][2] - Pad8(amount) >= amount
GrowsOrFails(c, amount) ==
    IF ExceedsFrame(amount)
    THEN c.m.err # "none"
    ELSE /\ c.m.err = "none"
         /\ c.m.stack_size = stack_size + amount + Pad8(amount)
         /\ c.ret = -c.m.stack_size
         /\ c.m.free_stack_chunks = free_stack_chunks
FrameBounded(amounts) ==
    /\ stack_size >= 0
    /\ phase = "alloc" =>
          \A amount \in amounts :
              (amount # 0 /\ ~SomeChunkFits(amount)) =>
                  /\ GrowsOrFails(claim_stack_size(State, amount), amount)
                  /\ GrowsOrFails(claim_stack_area(State, "s0", amount), amount)
C24_OutOfStack == FrameBounded(AllocAmounts)

\* The same for the amounts up to 2^32 - 8, whose rounding stays in u32.
C24_OutOfStackBelowWrap == FrameBounded({a \in AllocAmounts : ~RoundingOverflows(a)})

(***************************************************************************)
(* C25.  free_stack_chunk(offset, size) ends the process with the double   *)
(* free error exactly when [offset, offset + size) meets a chunk of the    *)
(* free list (the same range, the same offset with another size, or any    *)
(* other overlap), and then the range is not added; a range that only      *)
(* touches free chunks is accepted.                                        *)
(***************************************************************************)
C25_OverlapIsDoubleFree ==
    phase = "alloc" =>
        \A base_offset \in AllocOffsets, size \in AllocSizes :
            base_offset + size <= 0 =>
                LET f == free_stack_chunk(State, base_offset, size)
                IN IF MeetsFree(free_stack_chunks, base_offset, size)
                   THEN /\ f.err = "DoubleFree"
                        /\ f.free_stack_chunks = free_stack_chunks
                   ELSE f.err = "none"

\* A chunk of 8 bytes is free between two live slots: freeing it again, or 4
\* or 16 bytes at its offset, or the 16 bytes that end in it, is a double
\* free; freeing the slot before it is not.
C25_Witness ==
    /\ phase = "alloc"
    /\ free_stack_chunks = << <<-16, 8>> >>
    /\ free_stack_chunk(State, -16, 8).err = "DoubleFree"
    /\ free_stack_chunk(State, -16, 4).err = "DoubleFree"
    /\ free_stack_chunk(State, -16, 16).err = "DoubleFree"
    /\ free_stack_chunk(State, -24, 16).err = "DoubleFree"
    /\ free_stack_chunk(State, -24, 8).err = "none"

(***************************************************************************)
(* C26.  claim_stack_size(amount), when it returns, has served the amount  *)
(* rounded up to a multiple of 8 from the smallest free chunk that holds   *)
(* it, the earliest of equals: an exact fit is removed, a larger chunk     *)
(* gives its offset and keeps (offset + amount, size - amount); stack_size *)
(* is then unchanged.  Only when no chunk holds the rounded amount does    *)
(* stack_size grow by it, the offset returned being -stack_size.           *)
(* For the amounts above 2^32 - 8 a build without overflow checks rounds   *)
(* to 0 and returns the offset of a chunk it leaves free.                  *)
(***************************************************************************)
\* The rounded amount is 2^31 or more: no chunk holds it and no frame can
\* grow by it.
Unservable(amount) == amount < 0 \/ amount > I32_MAX - Pad8(amount)
BestFit(chunks, rounded) ==
    LET fit == {i \in 1..Len(chunks) : chunks[i][2] >= rounded}
    IN IF fit = {} THEN 0
       ELSE CHOOSE i \in fit :
                \A j \in fit : chunks[i][2] < chunks[j][2] \/ (chunks[i][2] = chunks[j][2] /\ i <= j)
ServedBestFit(c, rounded) ==
    LET best == BestFit(free_stack_chunks, rounded)
    IN IF best = 0
       THEN /\ c.m.stack_size = stack_size + rounded
            /\ c.ret = -c.m.stack_size
            /\ c.m.free_stack_chunks = free_stack_chunks
       ELSE /\ c.m.stack_size = stack_size
            /\ c.ret = free_stack_chunks[best][1]
            /\ c.m.free_stack_chunks =
                  IF free_stack_chunks[best][2] = rounded
                  THEN SubSeq(free_stack_chunks, 1, best - 1)
                          \o SubSeq(free_stack_chunks, best + 1, Len(free_stack_chunks))
                  ELSE [free_stack_chunks EXCEPT
                           ![best] = <<free_stack_chunks[best][1] + rounded,
                                       free_stack_chunks[best][2] - rounded>>]
BestFitFor(amounts) ==
    phase = "alloc" =>
        \A amount \in amounts :
            (amount # 0 /\ claim_stack_size(State, amount).m.err = "none") =>
                /\ ~Unservable(amount)
                /\ ~Unservable(amount) =>
                      ServedBestFit(claim_stack_size(State, amount), amount + Pad8(amount))
C26_BestFit == BestFitFor(AllocAmounts)

\* The same for the amounts up to 2^32 - 8, whose rounding stays in u32.
C26_BestFitBelowWrap == BestFitFor({a \in AllocAmounts : ~RoundingOverflows(a)})

(***************************************************************************)
(* C27.  free_stack_chunk(offset, size) of a range that meets no free      *)
(* chunk returns, and the free bytes are then those of before and those of *)
(* [offset, offset + size), in a list that is sorted with chunks sharing a *)
(* boundary merged; nothing else changes.  Freeing (-24, 8) into           *)
(* [(-32, 8), (-16, 8)] gives [(-32, 24)].                                 *)
(***************************************************************************)
FreeBytes(chunks) ==
    UNION {chunks[i][1]..(chunks[i][1] + chunks[i][2] - 1) : i \in 1..Len(chunks)}
Coalesced(chunks) ==
    \A i \in 1..(Len(chunks) - 1) : chunks[i][1] + chunks[i][2] < chunks[i + 1][1]
C27_FreeAddsRange ==
    phase = "alloc" =>
        \A base_offset \in AllocOffsets, size \in AllocSizes :
            (base_offset + size <= 0 /\ ~MeetsFree(free_stack_chunks, base_offset, size)) =>
                LET f == free_stack_chunk(State, base_offset, size)
                IN /\ f.err = "none"
                   /\ FreeBytes(f.free_stack_chunks) =
                         FreeBytes(free_stack_chunks) \cup (base_offset..(base_offset + size - 1))
                   /\ Coalesced(f.free_stack_chunks)
                   /\ \A i \in 1..Len(f.free_stack_chunks) : f.free_stack_chunks[i][2] > 0
                   /\ [f EXCEPT !.free_stack_chunks = free_stack_chunks] = State

\* The live slot between two free slots is freed: one chunk of 24 bytes.
C27_Witness ==
    /\ phase = "alloc"
    /\ free_stack_chunks = << <<-32, 8>>, <<-16, 8>> >>
    /\ free_stack_chunk(State, -24, 8).free_stack_chunks = << <<-32, 24>> >>

(***************************************************************************)
(* C28.  get_general_reg / get_float_reg with a free register returns the  *)
(* last of the free list, spills nothing and emits nothing.  With none     *)
(* free it returns the register of the first entry of the used list and    *)
(* spills that entry's symbol and no other.  A load of a symbol that is in *)
(* a register leaves the used list, and so the next victim, as it was.     *)
(***************************************************************************)
TookFree(g, free_regs, new_free_regs) ==
    /\ g.m.err = "none"
    /\ g.ret = Last(free_regs)
    /\ new_free_regs = Front(free_regs)
    /\ g.m.buf = <<>>
    /\ g.m.symbol_storage_map = symbol_storage_map
    /\ g.m.general_used_regs = general_used_regs
    /\ g.m.float_used_regs = float_used_regs
    /\ g.m.stack_size = stack_size
    /\ g.m.free_stack_chunks = free_stack_chunks
SpilledOldest(g, used_regs, new_used_regs, new_free_regs) ==
    g.m.err = "none" =>
        /\ g.ret = used_regs[1][1]
        /\ new_used_regs = Tail(used_regs)
        /\ new_free_regs = <<>>
        /\ g.m.symbol_storage_map[used_regs[1][2]].tag = "Primitive"
        /\ g.m.symbol_storage_map[used_regs[1][2]].reg = None
        /\ \A s \in Live \ {used_regs[1][2]} :
              g.m.symbol_storage_map[s] = symbol_storage_map[s]
C28_RegisterSelection ==
    Running =>
        /\ IF general_free_regs # <<>>
           THEN TookFree(get_general_reg(State), general_free_regs,
                         get_general_reg(State).m.general_free_regs)
           ELSE general_used_regs # <<>> =>
                   SpilledOldest(get_general_reg(State), general_used_regs,
                                 get_general_reg(State).m.general_used_regs,
                                 get_general_reg(State).m.general_free_regs)
        /\ IF float_free_regs # <<>>
           THEN TookFree(get_float_reg(State), float_free_regs,
                         get_float_reg(State).m.float_free_regs)
           ELSE float_used_regs # <<>> =>
                   SpilledOldest(get_float_reg(State), float_used_regs,
                                 get_float_reg(State).m.float_used_regs,
                                 get_float_reg(State).m.float_free_regs)
        /\ \A sym \in AllSymbols :
              /\ InRegister(sym, "General") =>
                    load_to_general_reg(State, sym).m.general_used_regs = general_used_regs
              /\ InRegister(sym, "Float") =>
                    load_to_float_reg(State, sym).m.float_used_regs = float_used_regs

\* Both float registers are bound and the older binding has just been
\* loaded again: it is still the one that is spilled.
C28_Witness ==
    /\ phase = "body"
    /\ float_free_regs = <<>> /\ Len(float_used_regs) = 2
    /\ float_used_regs[1][2] # float_used_regs[2][2]
    /\ LET loaded == load_to_float_reg(State, float_used_regs[1][2])
           g == get_float_reg(loaded.m)
       IN /\ loaded.m.err = "none"
          /\ g.m.err = "none"
          /\ g.ret = float_used_regs[1][1]
          /\ g.m.symbol_storage_map[float_used_regs[1][2]].reg = None
          /\ g.m.symbol_storage_map[float_used_regs[2][2]].reg = Float(float_used_regs[2][1])

(***************************************************************************)
(* C29.  An operation that emits a load or a store emits it before it      *)
(* changes the manager: when the instruction is handed to the assembler    *)
(* the storage map, the register lists, the free chunks and the stack size *)
(* are what they were when the operation began.                            *)
(***************************************************************************)
SameBookkeeping(at, m) == at.err = "none" => [at EXCEPT !.buf = <<>>] = m
LoadsFromStack(s) ==
    /\ s \in Live
    /\ symbol_storage_map[s].reg = None
    /\ symbol_storage_map[s].base_offset % 8 = 0
    /\ \/ symbol_storage_map[s].tag = "Primitive"
       \/ symbol_storage_map[s].tag = "ReferencedPrimitive" /\ symbol_storage_map[s].size = 8
C29_EmitBeforeUpdate ==
    Running =>
        \A sym \in AllSymbols :
            /\ LoadsFromStack(sym) =>
                  /\ SameBookkeeping(load_to_general_reg_at_emit(State, sym), State)
                  /\ SameBookkeeping(load_to_float_reg_at_emit(State, sym), State)
            /\ (sym \in Live /\ symbol_storage_map[sym].tag = "Reg") =>
                  SameBookkeeping(free_to_stack_at_emit(State, sym), State)
            /\ sym \in Live =>
                  /\ SameBookkeeping(copy_symbol_to_stack_offset_at_emit(State, sym, I64), State)
                  /\ SameBookkeeping(copy_symbol_to_stack_offset_at_emit(State, sym, F64), State)

(***************************************************************************)
(* C30.  No two distinct live symbols have storage naming the same         *)
(* register, as Reg(r) or as the mirror of a Primitive, and a register     *)
(* named by a live symbol's storage is not in the free list: get_*_reg     *)
(* never hands out a register that holds a live symbol's value without     *)
(* spilling it first.                                                      *)
(***************************************************************************)
FreeRegs(kind) ==
    IF kind = "General"
    THEN {general_free_regs[i] : i \in 1..Len(general_free_regs)}
    ELSE {float_free_regs[i] : i \in 1..Len(float_free_regs)}
RegistersExclusive(holders) ==
    /\ \A s \in holders, t \in holders :
          (s # t /\ symbol_storage_map[s].reg # None) =>
              symbol_storage_map[s].reg # symbol_storage_map[t].reg
    /\ \A s \in holders :
          symbol_storage_map[s].reg # None =>
              symbol_storage_map[s].reg.r \notin FreeRegs(symbol_storage_map[s].reg.kind)
C30_RegistersExclusive == Running => RegistersExclusive(Live)

\* The same of the symbols other than the return pointer.
C30_ClientRegistersExclusive == Running => RegistersExclusive(Live \ {RET_POINTER})

(***************************************************************************)
(* C31.  A symbol keeps its register kind only while its storage names a   *)
(* register.  A symbol held in a float register and spilled by             *)
(* push_used_caller_saved_regs_to_stack is in a Primitive slot with no     *)
(* register, and load_to_general_reg then gives it a general register and  *)
(* binds it to that register at the same slot; symmetrically for a symbol  *)
(* held in a general register and load_to_float_reg.  The load fails only  *)
(* when no register or no stack can be got, never for the kind.            *)
(***************************************************************************)
HeldOnlyIn(s, kind) ==
    /\ s \in Live
    /\ symbol_storage_map[s].tag = "Reg"
    /\ symbol_storage_map[s].reg.kind = kind
SpilledToSlot(p, s) ==
    /\ p.err = "none"
    /\ p.symbol_storage_map[s].tag = "Primitive"
    /\ p.symbol_storage_map[s].reg = None
ReboundAs(p, l, s, reg_storage) ==
    l.m.err = "none" =>
        l.m.symbol_storage_map[s] = Primitive(p.symbol_storage_map[s].base_offset, reg_storage)
LoadsInOtherKind(p, s, kind) ==
    (p.err = "none" /\ p.symbol_storage_map[s].tag = "Primitive") =>
        /\ p.symbol_storage_map[s].reg = None
        /\ IF kind = "Float"
           THEN /\ load_to_general_reg(p, s).m.err \in {"none", "OutOfStack", "OutOfRegisters"}
                /\ ReboundAs(p, load_to_general_reg(p, s), s,
                             General(load_to_general_reg(p, s).ret))
           ELSE /\ load_to_float_reg(p, s).m.err \in {"none", "OutOfStack", "OutOfRegisters"}
                /\ ReboundAs(p, load_to_float_reg(p, s), s,
                             Float(load_to_float_reg(p, s).ret))
C31_KindNotKeptInSlot ==
    Running =>
        \A sym \in AllSymbols, kind \in {"General", "Float"} :
            HeldOnlyIn(sym, kind) =>
                LoadsInOtherKind(push_used_caller_saved_regs_to_stack(State), sym, kind)

\* A symbol in a float register whose spill and load into a general register
\* both succeed.
LoadedInOtherKind(p, s) ==
    /\ SpilledToSlot(p, s)
    /\ load_to_general_reg(p, s).m.err = "none"
    /\ load_to_general_reg(p, s).ret \in GeneralRegs
    /\ load_to_general_reg(p, s).m.symbol_storage_map[s].reg.kind = "General"
C31_Witness ==
    /\ Running
    /\ \E sym \in Symbols :
          /\ HeldOnlyIn(sym, "Float")
          /\ LoadedInOtherKind(push_used_caller_saved_regs_to_stack(State), sym)

\* The claim as it was stated: the load in the other kind fails after the spill.
FailsInOtherKind(p, s, kind) ==
    SpilledToSlot(p, s) =>
        IF kind = "Float"
        THEN load_to_general_reg(p, s).m.err # "none"
        ELSE load_to_float_reg(p, s).m.err # "none"
C31_KindPreserved ==
    Running =>
        \A sym \in AllSymbols, kind \in {"General", "Float"} :
            HeldOnlyIn(sym, kind) =>
                FailsInOtherKind(push_used_caller_saved_regs_to_stack(State), sym, kind)

(***************************************************************************)
(* C32.  Every chunk of the free list lies inside the local frame: its     *)
(* offset is at least -stack_size and its end at most 0, so that           *)
(* claim_stack_size returns an offset of [-stack_size, 0) only.            *)
(***************************************************************************)
InsideFrame(offset, size, frame) == offset >= -frame /\ offset + size <= 0
ClaimsInsideFrame(c) ==
    c.m.err = "none" => c.ret >= -c.m.stack_size /\ c.ret < 0
ChunksInsideFrame(chunks) ==
    /\ \A i \in chunks :
          InsideFrame(free_stack_chunks[i][1], free_stack_chunks[i][2], stack_size)
    /\ \A amount \in {8, 16} : ClaimsInsideFrame(claim_stack_size(State, amount))
C32_ChunksInsideFrame == Running => ChunksInsideFrame(DOMAIN free_stack_chunks)

\* The same while no symbol bound by primitive_stack_arg has been freed.
NoArgSlotFreed == \A i \in DOMAIN free_stack_chunks : free_stack_chunks[i][1] < 0
C32_LocalChunksInsideFrame ==
    (Running /\ NoArgSlotFreed) => ChunksInsideFrame(DOMAIN free_stack_chunks)

(***************************************************************************)
(* C33.  Every chunk of the free list has an offset and a size that are    *)
(* multiples of 8 and stack_size is a multiple of 8, also after an area of *)
(* a size that is no multiple of 8 has been claimed and released: all the  *)
(* bytes a claim reserved are returned when it is freed.                   *)
(***************************************************************************)
Aligned8(chunks) ==
    \A i \in DOMAIN chunks : chunks[i][1] % 8 = 0 /\ chunks[i][2] % 8 = 0
ReturnsReserved(m, c, sym) ==
    c.m.err = "none" =>
        /\ free_symbol(c.m, sym).err = "none"
        /\ Aligned8(free_symbol(c.m, sym).free_stack_chunks)
        /\ SumSizes(free_symbol(c.m, sym).free_stack_chunks)
              = SumSizes(m.free_stack_chunks) + (c.m.stack_size - m.stack_size)
C33_ChunksAligned ==
    Running =>
        /\ stack_size % 8 = 0
        /\ Aligned8(free_stack_chunks)
        /\ \A sym \in Symbols \ Live, size \in AreaSizes :
              ReturnsReserved(State, claim_stack_area(State, sym, size), sym)

\* The same of the areas whose size is a multiple of 8.
C33_RoundSizesAligned ==
    (Running /\ Aligned8(free_stack_chunks)) =>
        /\ stack_size % 8 = 0
        /\ \A sym \in Symbols \ Live, size \in {s \in AreaSizes : s % 8 = 0} :
              ReturnsReserved(State, claim_stack_area(State, sym, size), sym)

(***************************************************************************)
(* C34.  The stack ranges of distinct live backing allocations are         *)
(* pairwise disjoint: the 8-byte slot of a Primitive symbol meets no other *)
(* Primitive symbol's slot and no chunk the allocation map holds, and no   *)
(* two distinct chunks of the allocation map meet.  A slot claimed for a   *)
(* spill during a load or create_struct meets no chunk still referenced.   *)
(***************************************************************************)
Slots(map) == {s \in DOMAIN map : map[s].tag = "Primitive"}
BackingDisjoint(m) ==
    /\ \A s \in Slots(m.symbol_storage_map), t \in Slots(m.symbol_storage_map) :
          s # t => ~Intersects(m.symbol_storage_map[s].base_offset, 8,
                               m.symbol_storage_map[t].base_offset, 8)
    /\ \A s \in Slots(m.symbol_storage_map), a \in Allocations(m.allocation_map) :
          ~Intersects(m.symbol_storage_map[s].base_offset, 8, a.base_offset, a.size)
    /\ \A a \in Allocations(m.allocation_map), b \in Allocations(m.allocation_map) :
          a.id # b.id => ~Intersects(a.base_offset, a.size, b.base_offset, b.size)
\* The slots of m that State does not hold meet no chunk referenced in State.
NewSlotsClear(m) ==
    \A s \in Slots(m.symbol_storage_map) :
        (s \notin Slots(symbol_storage_map)
            \/ m.symbol_storage_map[s].base_offset # symbol_storage_map[s].base_offset) =>
        \A a \in Allocations(allocation_map) :
            ~Intersects(m.symbol_storage_map[s].base_offset, 8, a.base_offset, a.size)
StaysDisjoint(m) == m.err = "none" => BackingDisjoint(m) /\ NewSlotsClear(m)
SpilledBeside(m, victim, structure, field) ==
    /\ m.err = "none"
    /\ m.symbol_storage_map[victim].tag = "Primitive"
    /\ m.symbol_storage_map[victim].reg = None
    /\ m.symbol_storage_map[structure].tag = "Complex"
    /\ structure \in DOMAIN m.allocation_map
    /\ ~Intersects(m.symbol_storage_map[victim].base_offset, 8,
                   m.allocation_map[structure].base_offset,
                   m.allocation_map[structure].size)
    /\ ~Intersects(m.symbol_storage_map[victim].base_offset, 8,
                   m.symbol_storage_map[field].base_offset, 8)
====
